---- MODULE Spec2Model ----
(***************************************************************************)
(* PRISM Brain: the quantitative scoring subsystem.                        *)
(*                                                                         *)
(*   - Pareto prioritisation of a client's processes                       *)
(*       (pages/3_Prioritization.py, process_prioritization)               *)
(*   - the writers of client_processes.criticality_per_day                 *)
(*       (pages/2_Process_Criticality.py)                                  *)
(*   - relevance scoring of the risk catalog                               *)
(*       (utils/helpers.py, filter_risks_by_relevance)                     *)
(*   - exposure formula and its aggregation                                *)
(*       (modules/database.py)                                             *)
(*                                                                         *)
(* Numbers.  Python floats are modelled by exact arithmetic:               *)
(*   - a percentage x / total * 100 is the rational [num |-> x * 100,      *)
(*     den |-> total]; comparisons cross-multiply;                         *)
(*   - fractions in [0,1] (probability, vulnerability, resilience) are     *)
(*     carried in tenths, so an exposure is carried in thousandths.        *)
(***************************************************************************)
EXTENDS Integers, Sequences, FiniteSets, TLC

\* ------------------------------------------------------------------ bounds
\* number of processes of the APQC framework (depth 3) that are modelled
NumFramework == 2
\* AUTOINCREMENT ids handed out by client_processes stay below this cap
MaxRowId == 2
\* criticality values a spreadsheet can carry range over -1 .. MaxCrit
MaxCrit == 2
\* longest risk catalog handed to the relevance scorer
MaxCatalog == 3
\* most rows of risk_assessments
MaxAssessments == 2
\* clients whose rows the store holds
NumClients == 2
\* a factor of the probability engine takes the values k / FactorSteps, k = 0 .. FactorSteps
FactorSteps == 2
\* the hours the clock runs through
MaxTime == 3
\* the longest time to live of a cache entry, in hours
MaxTtl == 2
\* AUTOINCREMENT ids handed out by clients stay below this cap
MaxClientId == 3
\* AUTOINCREMENT ids a session of process selections hands out stay below this cap
MaxSelectionRowId == 4
MaxRiskRowId == 4
MaxJoinRowId == 3



\* ------------------------------------------------------------- state
VARIABLES
    client_processes,       \* table client_processes: set of rows
    process_seq,            \* sqlite_sequence of client_processes (last id)
    threshold,              \* local of process_prioritization: the slider's value
    prioritized_processes,  \* st.session_state.prioritized_processes
    pareto_data,            \* local of process_prioritization (last run)
    pp_result,              \* what the last page run of process_prioritization returned
    pp_warning,             \* st.warning shown by the last run
    risks,                  \* the risk catalog handed to filter_risks_by_relevance
    client_info,            \* the client row handed to filter_risks_by_relevance
    scored_risks,           \* what the last call of filter_risks_by_relevance returned
    previous_scored,        \* what the call before it returned
    client_risks,           \* table client_risks: set of rows
    risk_assessments,       \* table risk_assessments: set of rows
    summary,                \* what the last call of get_risk_exposure_summary returned
    clients,                \* table clients: the ids of its rows
    last_saved,             \* history: per assessment key, what save_assessment was last given
    probability_result,     \* what the last call of calculate_probability returned
    calculated_probabilities,   \* st.session_state.calculated_probabilities
    backend_probs_auto_fetched, \* st.session_state.backend_probs_auto_fetched
    pc_run,                 \* what the last run of probability_calculator did
    last_remote,            \* history: outcome of the latest call of fetch_probabilities
    risk_threshold,         \* st.session_state.risk_threshold
    prioritized_risks,      \* st.session_state.prioritized_risks
    rp_result,              \* what the last run of risk_prioritization showed: its scored_risks
    external_data_cache,    \* table external_data_cache: set of rows
    now,                    \* the clock, in hours
    cache_got,              \* history: the latest get since the latest put
    cache_put,              \* history: per cache key, what put was last given
    client_name,            \* table clients, column name: by row id, for every id handed out
    client_seq,             \* sqlite_sequence of clients (last id)
    seed_log,               \* history: the database before and after the latest seed_demo_clients
    risk_seq,               \* sqlite_sequence of client_risks (last id)
    risk_save_log,          \* history: the latest press of a "Save Risk Selection" button
    clients_table,          \* table clients with its columns, where the updates are modelled
    update_log,             \* history: the latest call of update_client, update_client_process
                            \* or update_client_risk
    deleted_processes,      \* history: the ids delete_client_process was called with
    session_client_id,          \* st.session_state.current_client_id as the pages set it
    session_selected_processes, \* st.session_state.selected_processes
    session_selected_risks,     \* st.session_state.selected_risks
    assessment_processes,       \* st.session_state.assessment_processes
    assessment_risks,           \* st.session_state.assessment_risks
    selection_loaded_for        \* history: the client selected_processes was last loaded for

pareto_vars == <<client_processes, process_seq, threshold,
                 prioritized_processes, pareto_data, pp_result, pp_warning>>

relevance_vars == <<risks, client_info, scored_risks, previous_scored>>

exposure_vars == <<client_risks, risk_assessments, summary>>

store_vars == <<clients, last_saved>>

engine_vars == <<probability_result>>

probability_vars == <<calculated_probabilities, backend_probs_auto_fetched, pc_run, last_remote>>

\* the state only the later specifications move
risk_vars == <<risk_threshold, prioritized_risks, rp_result>>

further_vars == <<store_vars, engine_vars, probability_vars, risk_vars>>

cache_vars == <<external_data_cache, now, cache_got, cache_put>>

seed_vars == <<client_name, client_seq, seed_log>>

save_vars == <<risk_seq, risk_save_log, deleted_processes, clients_table, update_log>>

later_vars == <<cache_vars, seed_vars, save_vars>>

session_vars == <<session_client_id, session_selected_processes, session_selected_risks, assessment_processes, assessment_risks, selection_loaded_for>>

vars == <<pareto_vars, relevance_vars, exposure_vars, further_vars, later_vars, session_vars>>

\* ------------------------------------------------------------- helpers
\* the one client whose pages are open (st.session_state.current_client_id)
current_client_id == 1

Framework == 1 .. NumFramework
CritValues == (0 - 1) .. MaxCrit

RECURSIVE SumSeq(_)
SumSeq(s) == IF s = <<>> THEN 0 ELSE Head(s) + SumSeq(Tail(s))

Range(s) == { s[i] : i \in DOMAIN s }

\* all orderings of a finite set, as sequences without repetition
Orderings(S) ==
    { f \in [1 .. Cardinality(S) -> S] : \A i, j \in DOMAIN f : i # j => f[i] # f[j] }

\* a / b * 100 as an exact rational
Pct(a, b) == [num |-> a * 100, den |-> b]

\* r <= t for a rational r (den # 0) and an integer t
RatLeqInt(r, t) ==
    IF r.den > 0 THEN r.num <= t * r.den ELSE r.num >= t * r.den

\* a <= b for rationals
RatLeq(a, b) ==
    IF (a.den > 0) = (b.den > 0)
    THEN a.num * b.den <= b.num * a.den
    ELSE a.num * b.den >= b.num * a.den

\* Python's sorted(..., reverse=True) on a list of keys: the permutation of
\* indices, descending by key, equal keys in their original order (stable).
RECURSIVE InsertDesc(_, _, _)
InsertDesc(order, keys, i) ==
    IF order = <<>> THEN <<i>>
    ELSE IF keys[Head(order)] >= keys[i]
         THEN <<Head(order)>> \o InsertDesc(Tail(order), keys, i)
         ELSE <<i>> \o order

RECURSIVE SortedDescUpTo(_, _)
SortedDescUpTo(keys, n) ==
    IF n = 0 THEN <<>> ELSE InsertDesc(SortedDescUpTo(keys, n - 1), keys, n)

SortedDesc(keys) == SortedDescUpTo(keys, Len(keys))

\* ------------------------------------------------------------- database
\* INSERT INTO client_processes without AUTOINCREMENT: the new row takes the
\* largest id of the table plus one, an id a deleted row may have had
add_client_process_rowid(table, seq, client_id, process_id, criticality_per_day) ==
    LET ids == { r.id : r \in table }
        top == IF ids = {} THEN 0 ELSE CHOOSE i \in ids : \A j \in ids : j <= i
    IN table \cup { [id |-> top + 1, client_id |-> client_id,
                     process_id |-> process_id,
                     criticality_per_day |-> criticality_per_day] }

\* INSERT INTO client_processes: a new row with the next AUTOINCREMENT id
add_client_process(table, seq, client_id, process_id, criticality_per_day) ==
    table \cup { [id |-> seq + 1, client_id |-> client_id,
                  process_id |-> process_id,
                  criticality_per_day |-> criticality_per_day] }

\* UPDATE client_processes SET criticality_per_day = ? WHERE id = ?
update_client_process(table, process_db_id, criticality_per_day) ==
    { IF r.id = process_db_id
      THEN [r EXCEPT !.criticality_per_day = criticality_per_day]
      ELSE r : r \in table }

\* DELETE FROM client_processes WHERE id = ?
delete_client_process(table, process_db_id) ==
    { r \in table : r.id # process_db_id }

\* update_client_process(id, criticality_per_day=values[id]) for each id
RECURSIVE UpdateEach(_, _, _)
UpdateEach(table, ids, values) ==
    IF ids = {} THEN table
    ELSE LET id == CHOOSE x \in ids : TRUE
         IN UpdateEach(update_client_process(table, id, values[id]), ids \ {id}, values)

\* delete_client_process(id) for each id
RECURSIVE DeleteEach(_, _)
DeleteEach(table, ids) ==
    IF ids = {} THEN table
    ELSE LET id == CHOOSE x \in ids : TRUE
         IN DeleteEach(delete_client_process(table, id), ids \ {id})

\* SELECT * FROM client_processes WHERE client_id = ? ORDER BY
\* criticality_per_day DESC: every row order the query may produce (SQL leaves
\* the order of rows with equal criticality open)
get_client_processes(table, client_id) ==
    LET rows == { r \in table : r.client_id = client_id }
    IN { s \in Orderings(rows) :
            \A i, j \in DOMAIN s :
                i < j => s[i].criticality_per_day >= s[j].criticality_per_day }

\* ------------------------------------------------- process_prioritization
\* the slider: min_value=50, max_value=100, step=5
Thresholds == { t \in 50 .. 100 : t % 5 = 0 }

\* sorted(processes, key=criticality_per_day, reverse=True)
sorted_processes(processes) ==
    LET keys  == [i \in DOMAIN processes |-> processes[i].criticality_per_day]
        order == SortedDesc(keys)
    IN [i \in DOMAIN order |-> processes[order[i]]]

\* sum(p.get('criticality_per_day', 0) for p in sorted_processes)
total_criticality(sorted) ==
    SumSeq([i \in DOMAIN sorted |-> sorted[i].criticality_per_day])

\* the loop that fills pareto_data: one row per process, in sorted order
pareto_rows(sorted, total) ==
    [i \in DOMAIN sorted |->
        LET crit       == sorted[i].criticality_per_day
            cumulative == SumSeq([k \in 1 .. i |-> sorted[k].criticality_per_day])
        IN [process_id            |-> sorted[i].id,
            criticality           |-> crit,
            percentage            |-> Pct(crit, total),
            cumulative_percentage |-> Pct(cumulative, total)]]

\* r < t for a rational r (den # 0) and an integer t
RatLtInt(r, t) ==
    IF r.den > 0 THEN r.num < t * r.den ELSE r.num > t * r.den

within_threshold_strict(df, limit) ==
    LET kept == SelectSeq(df, LAMBDA row : RatLtInt(row.cumulative_percentage, limit))
    IN [i \in DOMAIN kept |-> kept[i].process_id]

\* df[df['cumulative_percentage'] <= threshold]['process_id'].tolist()
within_threshold(df, limit) ==
    LET kept == SelectSeq(df, LAMBDA row : RatLeqInt(row.cumulative_percentage, limit))
    IN [i \in DOMAIN kept |-> kept[i].process_id]

\* the filter, then "always include at least the top process"
selected_processes(df, limit) ==
    LET within == within_threshold(df, limit)
    IN IF within = <<>> /\ Len(df) > 0 THEN <<df[1].process_id>> ELSE within

zero_total_negative_only(total) == total < 0

\* if total_criticality == 0: warn and return
zero_total(total) == total = 0

NoThreshold == 0
NotRun == [kind |-> "not_run", ids |-> <<>>]
ReturnedNone == [kind |-> "None", ids |-> <<>>]
Returned(ids) == [kind |-> "list", ids |-> ids]

\* the locals of process_prioritization do not outlive the page run
ForgetLocals ==
    /\ pareto_data' = <<>>
    /\ threshold' = NoThreshold
    /\ pp_result' = NotRun
    /\ pp_warning' = "none"

\* one run of process_prioritization (the tab is drawn on every rerun)
ProcessPrioritization ==
    \E processes \in get_client_processes(client_processes, current_client_id) :
        IF processes = <<>>
        THEN /\ pp_warning' = "no_processes"
             /\ pp_result' = ReturnedNone
             /\ pareto_data' = <<>>
             /\ threshold' = NoThreshold
             /\ UNCHANGED <<client_processes, process_seq, prioritized_processes>>
             /\ UNCHANGED <<relevance_vars, exposure_vars, further_vars, later_vars, session_vars>>
        ELSE LET sorted == sorted_processes(processes)
                 total  == total_criticality(sorted)
             IN IF zero_total(total)
                THEN /\ pp_warning' = "zero_total"
                     /\ pp_result' = ReturnedNone
                     /\ pareto_data' = <<>>
                     /\ threshold' = NoThreshold
                     /\ UNCHANGED <<client_processes, process_seq, prioritized_processes>>
                     /\ UNCHANGED <<relevance_vars, exposure_vars, further_vars, later_vars, session_vars>>
                ELSE \E slider \in Thresholds :
                        LET df       == pareto_rows(sorted, total)
                            selected == selected_processes(df, slider)
                        IN /\ pareto_data' = df
                           /\ threshold' = slider
                           /\ prioritized_processes' = selected
                           /\ pp_result' = Returned(selected)
                           /\ pp_warning' = "none"
                           /\ UNCHANGED <<client_processes, process_seq>>
                           /\ UNCHANGED <<relevance_vars, exposure_vars, further_vars, later_vars, session_vars>>

\* ------------------------------------------ writers of criticality_per_day
\* criticality_input, "Save Criticality Values": every saved process gets the
\* value of its number_input (min_value=0.0).  The widget cannot be drawn with
\* a stored value below min_value, so the form exists only when none is.
SaveCriticalityValues ==
    LET saved == { r \in client_processes : r.client_id = current_client_id }
    IN /\ saved # {}
       /\ \A r \in saved : r.criticality_per_day >= 0
       /\ \E updated_values \in [{ r.id : r \in saved } -> 0 .. MaxCrit] :
            client_processes' =
                UpdateEach(client_processes, DOMAIN updated_values, updated_values)
       /\ UNCHANGED <<process_seq, prioritized_processes>>
       /\ UNCHANGED <<relevance_vars, exposure_vars, further_vars, later_vars, session_vars>>
       /\ ForgetLocals

\* criticality_input, "Apply Suggested Values to All": revenue / 250 /
\* len(saved_processes), offered only when revenue > 0
ApplySuggestedValues ==
    LET saved == { r \in client_processes : r.client_id = current_client_id }
    IN /\ saved # {}
       /\ \E suggested \in 1 .. MaxCrit :
            client_processes' =
                UpdateEach(client_processes, { r.id : r \in saved },
                           [id \in { r.id : r \in saved } |-> suggested])
       /\ UNCHANGED <<process_seq, prioritized_processes>>
       /\ UNCHANGED <<relevance_vars, exposure_vars, further_vars, later_vars, session_vars>>
       /\ ForgetLocals

\* the inserts of "Apply Upload", in the iteration order of the set new_selected
RECURSIVE AddUploaded(_, _, _, _)
AddUploaded(table, seq, order, crit_values) ==
    IF order = <<>> THEN table
    ELSE AddUploaded(
            add_client_process(table, seq, current_client_id, Head(order),
                               crit_values[Head(order)]),
            seq + 1, Tail(order), crit_values)

\* import_export_section, "Apply Upload": a sheet with one row per framework
\* process, a Selected mark and a criticality that float() accepts as it is
ApplyUpload ==
    \E new_selected \in SUBSET Framework :
    \E crit_values \in [new_selected -> CritValues] :
        LET saved_processes == { r \in client_processes : r.client_id = current_client_id }
            saved_ids == { r.process_id : r \in saved_processes }
            to_add    == new_selected \ saved_ids
            to_update == { r \in saved_processes :
                              /\ r.process_id \in new_selected
                              /\ crit_values[r.process_id] > 0 }
            to_remove == { r \in saved_processes : r.process_id \notin new_selected }
        IN /\ process_seq + Cardinality(to_add) <= MaxRowId
           /\ \E order \in Orderings(to_add) :
                client_processes' =
                    DeleteEach(
                        UpdateEach(
                            AddUploaded(client_processes, process_seq, order, crit_values),
                            { r.id : r \in to_update },
                            [id \in { r.id : r \in to_update } |->
                                crit_values[(CHOOSE r \in to_update : r.id = id).process_id]]),
                        { r.id : r \in to_remove })
           /\ process_seq' = process_seq + Cardinality(to_add)
           /\ UNCHANGED prioritized_processes
           /\ UNCHANGED <<relevance_vars, exposure_vars, further_vars, later_vars, session_vars>>
           /\ ForgetLocals

\* ------------------------------------------------------------ specification
NeverSaved == [k \in {} |-> 0]

\* a Python dict and None, as values that are stored and handed around
NoItems == [k \in {} |-> 0]
dict(items) == [kind |-> "dict", items |-> items]
None == [kind |-> "None"]
\* if x: a dict is true when it has a key, None is false
truthy(x) == x.kind = "dict" /\ DOMAIN x.items # {}

\* nothing scored: the state of the relevance scorer before any call
NoCatalog ==
    /\ risks = <<>>
    /\ client_info = [industry |-> <<>>, sectors |-> <<>>, location |-> <<>>,
                      export_percentage |-> 0]
    /\ scored_risks = [kind |-> "not_run", rows |-> <<>>]
    /\ previous_scored = [kind |-> "not_run", rows |-> <<>>]

\* nothing assessed: no risk rows, no assessments, no summary asked for
NoAssessments ==
    /\ client_risks = {}
    /\ risk_assessments = {}
    /\ summary = [kind |-> "not_run"]

\* no run of process_prioritization yet
NoPrioritization ==
    /\ threshold = NoThreshold
    /\ prioritized_processes = <<>>
    /\ pareto_data = <<>>
    /\ pp_result = NotRun
    /\ pp_warning = "none"

\* the row of the open client and no save_assessment call on record
OneClient ==
    /\ clients = {current_client_id}
    /\ last_saved = NeverSaved

\* no call of calculate_probability yet
NoResult == probability_result = [kind |-> "not_run"]

\* the session as lines 39-42 of the risk selection page set it up, the
\* probability calculator not yet shown
NoCalculator ==
    /\ calculated_probabilities = dict(NoItems)
    /\ backend_probs_auto_fetched = FALSE
    /\ pc_run = [ran |-> FALSE]
    /\ last_remote = "none"

\* the session as lines 45-50 of the prioritization page set it up, the
\* risk tab not yet shown
NoRiskPrioritization ==
    /\ risk_threshold = 50
    /\ prioritized_risks = <<>>
    /\ rp_result = [kind |-> "not_run", scored_risks |-> <<>>]

\* an empty cache at hour 0, never read or written
NoCache ==
    /\ external_data_cache = {}
    /\ now = 0
    /\ cache_got = [kind |-> "none"]
    /\ cache_put = NeverSaved

\* no client created through create_client, seed_demo_clients never called
NoSeeding ==
    /\ client_name = NeverSaved
    /\ client_seq = 0
    /\ seed_log = [ran |-> FALSE]

\* no "Save Risk Selection" pressed, ids of client_risks handed out up to 3;
\* no delete_client_process and no update on record
NoRiskSave ==
    /\ risk_seq = 3
    /\ risk_save_log = [kind |-> "none"]
    /\ deleted_processes = {}
    /\ clients_table = {}
    /\ update_log = [kind |-> "none"]

\* current_client_id of a session is None until a page sets it
NoClient == 0

\* the session as the pages set it up on their first run: no client open,
\* nothing selected, nothing handed to the assessment page
NoSession ==
    /\ session_client_id = NoClient
    /\ session_selected_processes = {}
    /\ session_selected_risks = {}
    /\ assessment_processes = [kind |-> "unset"]
    /\ assessment_risks = [kind |-> "unset"]
    /\ selection_loaded_for = NoClient

\* the tables and sessions of the specifications further below, untouched
NothingLater ==
    /\ NoCache
    /\ NoSeeding
    /\ NoRiskSave
    /\ NoSession

\* the state the later specifications start from, untouched
NothingFurther ==
    /\ OneClient
    /\ NoResult
    /\ NoCalculator
    /\ NoRiskPrioritization

ParetoInit ==
    /\ NoCatalog
    /\ NoAssessments
    /\ NothingFurther
    /\ client_processes = {}
    /\ process_seq = 0
    /\ threshold = NoThreshold
    /\ prioritized_processes = <<>>
    /\ pareto_data = <<>>
    /\ pp_result = NotRun
    /\ pp_warning = "none"
    /\ NothingLater

ParetoNext ==
    \/ ProcessPrioritization
    \/ SaveCriticalityValues
    \/ ApplySuggestedValues
    \/ ApplyUpload

Spec == ParetoInit /\ [][ParetoNext]_vars

\* ------------------------------------------------------------------- text
\* A str is a sequence of one-character strings.
UpperCase == <<"A", "B", "C", "D", "E", "F", "G", "H", "I", "J", "K", "L", "M", "N", "O", "P", "Q", "R", "S", "T", "U", "V", "W", "X", "Y", "Z">>
LowerCase == <<"a", "b", "c", "d", "e", "f", "g", "h", "i", "j", "k", "l", "m", "n", "o", "p", "q", "r", "s", "t", "u", "v", "w", "x", "y", "z">>

\* str.lower()
lower(text) ==
    [i \in DOMAIN text |->
        IF \E k \in DOMAIN UpperCase : UpperCase[k] = text[i]
        THEN LowerCase[CHOOSE k \in DOMAIN UpperCase : UpperCase[k] = text[i]]
        ELSE text[i]]

\* needle in hay
contains(hay, needle) ==
    \E start \in 1 .. Len(hay) + 1 :
        /\ start + Len(needle) - 1 <= Len(hay)
        /\ \A k \in DOMAIN needle : hay[start + k - 1] = needle[k]

\* str.strip(): leading and trailing blanks removed
RECURSIVE lstrip(_)
lstrip(text) ==
    IF text # <<>> /\ Head(text) = " " THEN lstrip(Tail(text)) ELSE text

RECURSIVE rstrip(_)
rstrip(text) ==
    IF text # <<>> /\ text[Len(text)] = " "
    THEN rstrip(SubSeq(text, 1, Len(text) - 1)) ELSE text

strip(text) == rstrip(lstrip(text))

\* str.split(','): the pieces between commas, empty pieces included
RECURSIVE split(_)
split(text) ==
    IF \A i \in DOMAIN text : text[i] # ","
    THEN <<text>>
    ELSE LET c == CHOOSE i \in DOMAIN text :
                     text[i] = "," /\ \A k \in 1 .. i - 1 : text[k] # ","
         IN <<SubSeq(text, 1, c - 1)>> \o split(SubSeq(text, c + 1, Len(text)))

\* the literals of filter_risks_by_relevance
all_industries == <<"a", "l", "l", " ", "i", "n", "d", "u", "s", "t", "r", "i", "e", "s">>
global == <<"g", "l", "o", "b", "a", "l">>
europe == <<"e", "u", "r", "o", "p", "e">>
shipping == <<"s", "h", "i", "p", "p", "i", "n", "g">>
trade == <<"t", "r", "a", "d", "e">>
YES == <<"Y", "E", "S">>

\* ------------------------------------------------ filter_risks_by_relevance
\* base_probability is carried in tenths; Absent stands for a missing key,
\* for which risk.get('base_probability', 0.5) yields 0.5
Absent == 0 - 1
base_probability(risk) ==
    IF risk.base_probability = Absent THEN 5 ELSE risk.base_probability

\* the sector bonus with every keyword counted once, however often it is listed
sector_bonus_distinct(sectors, affected) ==
    IF sectors = <<>> THEN 0
    ELSE LET pieces == split(sectors)
         IN 2 * Cardinality({ k \in { strip(pieces[i]) : i \in DOMAIN pieces } :
                                 contains(affected, k) })

\* for sector in sectors.split(','): if sector.strip() in affected: score += 2
sector_bonus(sectors, affected) ==
    IF sectors = <<>> THEN 0
    ELSE LET pieces == split(sectors)
         IN 2 * Cardinality({ i \in DOMAIN pieces : contains(affected, strip(pieces[i])) })

\* the body of the loop: the score of one risk
relevance_score(risk, info) ==
    LET industry   == lower(info.industry)
        sectors    == lower(info.sectors)
        location   == lower(info.location)
        export_pct == info.export_percentage
        affected   == lower(risk.Affected_Industries)
        geo_scope  == lower(risk.Geographic_Scope)
        name       == lower(risk.Event_Name)
    IN base_probability(risk)
       + (IF industry # <<>> /\ contains(affected, industry) THEN 5 ELSE 0)
       + (IF contains(affected, all_industries) THEN 3 ELSE 0)
       + sector_bonus(sectors, affected)
       + (IF contains(geo_scope, global) THEN 2 ELSE 0)
       + (IF contains(location, europe) /\ contains(geo_scope, europe) THEN 3 ELSE 0)
       + (IF export_pct > 50
          THEN (IF contains(name, shipping) THEN 3 ELSE 0)
               + (IF contains(name, trade) THEN 2 ELSE 0)
          ELSE 0)
       + (IF risk.Super_Risk = YES THEN 5 ELSE 0)

\* ascending sort, then reversed: equal scores come out in reverse catalog order
sorted_by_relevance_reversed(scored) ==
    LET keys  == [i \in DOMAIN scored |-> 0 - scored[i].relevance_score]
        order == SortedDesc(keys)
    IN [i \in DOMAIN order |-> scored[order[Len(order) + 1 - i]]]

\* sorted(scored_risks, key=relevance_score, reverse=True)
sorted_by_relevance(scored) ==
    LET keys  == [i \in DOMAIN scored |-> scored[i].relevance_score]
        order == SortedDesc(keys)
    IN [i \in DOMAIN order |-> scored[order[i]]]

filter_risks_by_relevance(catalog, info) ==
    sorted_by_relevance(
        [i \in DOMAIN catalog |->
            [risk |-> catalog[i], relevance_score |-> relevance_score(catalog[i], info)]])

\* one call, as risk_selection_interface makes on every rerun of its page
FilterRisksByRelevance ==
    /\ risks # <<>>
    /\ scored_risks' = [kind |-> "list", rows |-> filter_risks_by_relevance(risks, client_info)]
    /\ previous_scored' = scored_risks
    /\ UNCHANGED <<risks, client_info>>
    /\ UNCHANGED <<pareto_vars, exposure_vars, further_vars, later_vars, session_vars>>

\* ------------------------------------------------- inputs of the scorer
\* catalog entries: every bonus of the scorer is earned by one and missed by another
RiskPool ==
    { [Event_Name |-> <<"P", "o", "r", "t", " ", "S", "t", "r", "i", "k", "e">>,
       Affected_Industries |-> <<"A", "l", "l", " ", "I", "n", "d", "u", "s", "t", "r", "i", "e", "s">>,
       Geographic_Scope |-> <<"G", "l", "o", "b", "a", "l">>,
       Super_Risk |-> <<"N", "O">>, base_probability |-> Absent],
      [Event_Name |-> <<"S", "h", "i", "p", "p", "i", "n", "g", " ", "D", "e", "l", "a", "y">>,
       Affected_Industries |-> <<"E", "n", "e", "r", "g", "y", ",", " ", "R", "e", "t", "a", "i", "l">>,
       Geographic_Scope |-> <<"E", "u", "r", "o", "p", "e">>,
       Super_Risk |-> <<"Y", "E", "S">>, base_probability |-> 2],
      [Event_Name |-> <<"T", "r", "a", "d", "e", " ", "W", "a", "r">>,
       Affected_Industries |-> <<"O", "i", "l", " ", "a", "n", "d", " ", "R", "e", "t", "a", "i", "l">>,
       Geographic_Scope |-> <<"G", "l", "o", "b", "a", "l", ",", " ", "E", "u", "r", "o", "p", "e">>,
       Super_Risk |-> <<"N", "O">>, base_probability |-> 8],
      [Event_Name |-> <<"F", "l", "o", "o", "d">>,
       Affected_Industries |-> <<>>,
       Geographic_Scope |-> <<"A", "s", "i", "a">>,
       Super_Risk |-> <<"Y", "E", "S">>, base_probability |-> Absent],
      [Event_Name |-> <<"T", "r", "a", "d", "e", " ", "S", "h", "i", "p", "p", "i", "n", "g", " ", "B", "a", "n">>,
       Affected_Industries |-> <<"E", "n", "e", "r", "g", "y">>,
       Geographic_Scope |-> <<"A", "s", "i", "a">>,
       Super_Risk |-> <<"Y", "e", "s">>, base_probability |-> 5] }

Industries == { <<>>, <<"E", "n", "e", "r", "g", "y">> }
\* free text typed by the operator: plain, repeated, with a trailing comma,
\* and with a doubled one
SectorTexts ==
    { <<>>,
      <<"R", "e", "t", "a", "i", "l">>,
      <<"r", "e", "t", "a", "i", "l", ",", " ", "o", "i", "l">>,
      <<"R", "e", "t", "a", "i", "l", ",">>,
      <<"O", "i", "l", ",", "o", "i", "l", ",", ",">> }
Locations == { <<"O", "s", "l", "o">>,
               <<"P", "a", "r", "i", "s", ",", " ", "E", "u", "r", "o", "p", "e">> }
ExportPercentages == { 50, 51 }

Catalogs ==
    UNION { { [i \in 1 .. n |->
                 [Event_ID |-> i,
                  Event_Name |-> f[i].Event_Name,
                  Affected_Industries |-> f[i].Affected_Industries,
                  Geographic_Scope |-> f[i].Geographic_Scope,
                  Super_Risk |-> f[i].Super_Risk,
                  base_probability |-> f[i].base_probability]] :
              f \in [1 .. n -> RiskPool] } : n \in 1 .. MaxCatalog }

RelevanceInit ==
    /\ risks \in Catalogs
    /\ client_info \in [industry : Industries, sectors : SectorTexts,
                        location : Locations, export_percentage : ExportPercentages]
    /\ scored_risks = [kind |-> "not_run", rows |-> <<>>]
    /\ previous_scored = [kind |-> "not_run", rows |-> <<>>]
    /\ NoAssessments
    /\ NothingFurther
    /\ client_processes = {}
    /\ process_seq = 0
    /\ threshold = NoThreshold
    /\ prioritized_processes = <<>>
    /\ pareto_data = <<>>
    /\ pp_result = NotRun
    /\ pp_warning = "none"
    /\ NothingLater

RelevanceNext == FilterRisksByRelevance

RelevanceSpec == RelevanceInit /\ [][RelevanceNext]_vars

\* -------------------------------------------------------------- exposure
\* calculate_risk_exposure with the factor (1 - resilience) left out
calculate_risk_exposure_no_complement(criticality, vulnerability, resilience, downtime, probability) ==
    criticality * vulnerability * resilience * downtime * probability

\* Fractions are in tenths, so an exposure is in thousandths of a currency unit.
\* criticality * vulnerability * (1 - resilience) * downtime * probability
calculate_risk_exposure(criticality, vulnerability, resilience, downtime, probability) ==
    criticality * vulnerability * (10 - resilience) * downtime * probability

\* save_assessment as a plain INSERT: the row joins the rows of its key
save_assessment_insert(table, client_id, process_id, risk_id, vulnerability, resilience, expected_downtime, notes) ==
    table \cup { [client_id |-> client_id, process_id |-> process_id, risk_id |-> risk_id,
                  vulnerability |-> vulnerability, resilience |-> resilience,
                  expected_downtime |-> expected_downtime, notes |-> notes] }

\* INSERT OR REPLACE INTO risk_assessments: UNIQUE(client_id, process_id,
\* risk_id) makes the new row take the place of the row with its key; the
\* row's id and assessed_at, which nothing modelled reads, are left out
save_assessment(table, client_id, process_id, risk_id, vulnerability, resilience, expected_downtime, notes) ==
    { a \in table : ~ ( /\ a.client_id = client_id
                        /\ a.process_id = process_id
                        /\ a.risk_id = risk_id ) }
    \cup { [client_id |-> client_id, process_id |-> process_id, risk_id |-> risk_id,
            vulnerability |-> vulnerability, resilience |-> resilience,
            expected_downtime |-> expected_downtime, notes |-> notes] }

\* what fetchone() gives when no row matches
NoRow == [kind |-> "None"]

\* SELECT * FROM risk_assessments WHERE client_id = ? AND process_id = ? AND
\* risk_id = ?, then fetchone(): every value the call may return
get_assessment(table, client_id, process_id, risk_id) ==
    LET rows == { a \in table : /\ a.client_id = client_id
                                /\ a.process_id = process_id
                                /\ a.risk_id = risk_id }
    IN IF rows = {} THEN {NoRow} ELSE rows

\* one row of SELECT ra.*, cp.process_name, cp.criticality_per_day,
\* cr.risk_name, cr.domain, cr.probability; the name of a framework process
\* is a function of its process_id, which stands for it
joined_row(ra, cp, cr) ==
    [client_id |-> ra.client_id, process_id |-> ra.process_id, risk_id |-> ra.risk_id,
     vulnerability |-> ra.vulnerability, resilience |-> ra.resilience,
     expected_downtime |-> ra.expected_downtime,
     process_name |-> cp.process_id,
     criticality_per_day |-> cp.criticality_per_day,
     risk_name |-> cr.risk_name, domain |-> cr.domain,
     probability |-> cr.probability]

\* FROM risk_assessments ra JOIN client_processes cp ON ra.process_id = cp.id
\* JOIN client_risks cr ON ra.risk_id = cr.id WHERE ra.client_id = ?
\* ORDER BY cp.criticality_per_day DESC, cr.probability DESC: every row order
\* the query may produce
get_assessments(client_id) ==
    LET matches == { t \in risk_assessments \X client_processes \X client_risks :
                        /\ t[1].process_id = t[2].id
                        /\ t[1].risk_id = t[3].id
                        /\ t[1].client_id = client_id }
        rows == { joined_row(t[1], t[2], t[3]) : t \in matches }
    IN { s \in Orderings(rows) :
            \A i, j \in DOMAIN s :
                i < j =>
                    \/ s[i].criticality_per_day > s[j].criticality_per_day
                    \/ /\ s[i].criticality_per_day = s[j].criticality_per_day
                       /\ s[i].probability >= s[j].probability }

\* add_to_bucket with bucket[key] = exposure in the place of bucket[key] += exposure
add_to_bucket_overwrite(bucket, key, exposure) ==
    [k \in DOMAIN bucket \cup {key} |-> IF k = key THEN exposure ELSE bucket[k]]

\* if key not in bucket: bucket[key] = 0; bucket[key] += exposure
add_to_bucket(bucket, key, exposure) ==
    IF key \in DOMAIN bucket
    THEN [bucket EXCEPT ![key] = @ + exposure]
    ELSE [k \in DOMAIN bucket \cup {key} |-> IF k = key THEN exposure ELSE bucket[k]]

\* summarize with summary["total_exposure"] = exposure in the place of += exposure
RECURSIVE summarize_total_assigned(_, _)
summarize_total_assigned(assessments, acc) ==
    IF assessments = <<>> THEN acc
    ELSE LET a == Head(assessments)
             exposure == calculate_risk_exposure(a.criticality_per_day, a.vulnerability,
                                                 a.resilience, a.expected_downtime,
                                                 a.probability)
         IN summarize_total_assigned(Tail(assessments),
                [kind           |-> "summary",
                 total_exposure |-> exposure,
                 by_domain      |-> add_to_bucket(acc.by_domain, a.domain, exposure),
                 by_process     |-> add_to_bucket(acc.by_process, a.process_name, exposure),
                 by_risk        |-> add_to_bucket(acc.by_risk, a.risk_name, exposure),
                 assessments    |-> Append(acc.assessments,
                                           [row |-> a, exposure |-> exposure])])

\* the loop of get_risk_exposure_summary over the assessments still to add
RECURSIVE summarize(_, _)
summarize(assessments, acc) ==
    IF assessments = <<>> THEN acc
    ELSE LET a == Head(assessments)
             exposure == calculate_risk_exposure(a.criticality_per_day, a.vulnerability,
                                                 a.resilience, a.expected_downtime,
                                                 a.probability)
         IN summarize(Tail(assessments),
                [kind           |-> "summary",
                 total_exposure |-> acc.total_exposure + exposure,
                 by_domain      |-> add_to_bucket(acc.by_domain, a.domain, exposure),
                 by_process     |-> add_to_bucket(acc.by_process, a.process_name, exposure),
                 by_risk        |-> add_to_bucket(acc.by_risk, a.risk_name, exposure),
                 assessments    |-> Append(acc.assessments,
                                           [row |-> a, exposure |-> exposure])])

EmptyBucket == [k \in {} |-> 0]

get_risk_exposure_summary(assessments) ==
    IF assessments = <<>>
    THEN [kind |-> "None"]
    ELSE summarize(assessments,
            [kind |-> "summary", total_exposure |-> 0, by_domain |-> EmptyBucket,
             by_process |-> EmptyBucket, by_risk |-> EmptyBucket, assessments |-> <<>>])

\* what an assessment can be saved with: <<vulnerability, resilience,
\* expected_downtime>>, the fractions in tenths; nothing checks their range
AssessmentInputs ==
    { <<5, 3, 5>>, <<0, 3, 5>>, <<5, 10, 5>>, <<5, 3, 0>>,
      <<5, 15, 5>>, <<0 - 5, 3, 5>>, <<5, 3, 0 - 1>> }

\* one call of save_assessment for the open client
SaveAssessment ==
    \E cp \in client_processes, cr \in client_risks, input \in AssessmentInputs :
        LET saved == save_assessment(risk_assessments, current_client_id, cp.id, cr.id,
                                     input[1], input[2], input[3], "")
        IN /\ Cardinality(saved) <= MaxAssessments
           /\ risk_assessments' = saved
           /\ summary' = [kind |-> "not_run"]
           /\ UNCHANGED client_risks
           /\ UNCHANGED <<pareto_vars, relevance_vars, further_vars, later_vars, session_vars>>

\* one call of get_risk_exposure_summary for the open client
GetRiskExposureSummary ==
    \E assessments \in get_assessments(current_client_id) :
        /\ summary' = get_risk_exposure_summary(assessments)
        /\ UNCHANGED <<client_risks, risk_assessments>>
        /\ UNCHANGED <<pareto_vars, relevance_vars, further_vars, later_vars, session_vars>>

\* stored criticalities and probabilities the summary can meet
ExposureCriticalities == { 0 - 1, 0, 100000 }
ExposureProbabilities == { 0, 4 }

ExposureInit ==
    /\ NoCatalog
    /\ NothingFurther
    /\ \E c1, c2 \in ExposureCriticalities :
          client_processes =
              { [id |-> 1, client_id |-> current_client_id, process_id |-> 1,
                 criticality_per_day |-> c1],
                [id |-> 2, client_id |-> current_client_id, process_id |-> 2,
                 criticality_per_day |-> c2] }
    /\ process_seq = 2
    /\ \E p1, p2 \in ExposureProbabilities, d2 \in {"Physical", "Digital"} :
          client_risks =
              { [id |-> 1, client_id |-> current_client_id, risk_id |-> "PHY-001",
                 risk_name |-> "Flood", domain |-> "Physical", probability |-> p1],
                [id |-> 2, client_id |-> current_client_id, risk_id |-> "DIG-001",
                 risk_name |-> "Ransomware", domain |-> d2, probability |-> p2] }
    /\ risk_assessments = {}
    /\ summary = [kind |-> "not_run"]
    /\ threshold = NoThreshold
    /\ prioritized_processes = <<>>
    /\ pareto_data = <<>>
    /\ pp_result = NotRun
    /\ pp_warning = "none"
    /\ NothingLater

ExposureNext ==
    \/ SaveAssessment
    \/ GetRiskExposureSummary

ExposureSpec == ExposureInit /\ [][ExposureNext]_vars

\* ----------------------------------------------------------------- store
ClientIds == 1 .. NumClients

\* PRAGMA foreign_keys: get_connection opens every connection without turning
\* it on, and SQLite then leaves it off
foreign_keys == FALSE

\* DELETE FROM clients WHERE id = ?
delete_client(table, client_id) == table \ {client_id}

\* what ON DELETE CASCADE removes from a child table when foreign keys are enforced
cascade(table, client_id) == { r \in table : r.client_id # client_id }

\* what save_assessment is called with beside the key: <<vulnerability,
\* resilience, expected_downtime>> and notes
UpsertInputs == { <<5, 3, 5>>, <<8, 3, 5>>, <<5, 3, 0>> }
NotesTexts == { "", "reviewed" }

\* the record of one save_assessment call; times is 1 for the first save of
\* the key and 2 from the second on
SavedRecord(key, input, notes) ==
    [vulnerability |-> input[1], resilience |-> input[2],
     expected_downtime |-> input[3], notes |-> notes,
     times |-> IF key \in DOMAIN last_saved THEN 2 ELSE 1]

\* one call of save_assessment for a process and a risk of a client
SaveAssessmentFor ==
    \E c \in clients, cp \in client_processes, cr \in client_risks,
       input \in UpsertInputs, notes \in NotesTexts :
        LET key   == <<c, cp.id, cr.id>>
            saved == save_assessment(risk_assessments, c, cp.id, cr.id,
                                     input[1], input[2], input[3], notes)
        IN /\ cp.client_id = c
           /\ cr.client_id = c
           /\ Cardinality(saved) <= MaxAssessments
           /\ risk_assessments' = saved
           /\ last_saved' = [k \in DOMAIN last_saved \cup {key} |->
                                IF k = key THEN SavedRecord(key, input, notes)
                                ELSE last_saved[k]]
           /\ UNCHANGED <<clients, client_processes, client_risks, summary>>
           /\ UNCHANGED <<process_seq, threshold, prioritized_processes, pareto_data,
                          pp_result, pp_warning, relevance_vars>>
           /\ UNCHANGED <<engine_vars, probability_vars, risk_vars, later_vars, session_vars>>

\* the delete button of the client list: delete_client(client['id']), and the
\* session forgets the client if it was the open one
DeleteClient ==
    \E c \in clients :
        /\ clients' = delete_client(clients, c)
        /\ IF foreign_keys
           THEN /\ client_processes' = cascade(client_processes, c)
                /\ client_risks' = cascade(client_risks, c)
                /\ risk_assessments' = cascade(risk_assessments, c)
           ELSE UNCHANGED <<client_processes, client_risks, risk_assessments>>
        /\ session_client_id' = IF session_client_id = c THEN NoClient ELSE session_client_id
        /\ UNCHANGED <<session_selected_processes, session_selected_risks,
                       assessment_processes, assessment_risks, selection_loaded_for>>
        /\ UNCHANGED <<last_saved, summary>>
        /\ UNCHANGED <<process_seq, threshold, prioritized_processes, pareto_data,
                       pp_result, pp_warning, relevance_vars>>
        /\ UNCHANGED <<engine_vars, probability_vars, risk_vars, later_vars>>

\* every client has one process and two risks; nothing is assessed yet
StoreInit ==
    /\ NoCatalog
    /\ NoPrioritization
    /\ clients = ClientIds
    /\ client_processes =
          { [id |-> c, client_id |-> c, process_id |-> 1, criticality_per_day |-> 100000] :
                c \in ClientIds }
    /\ process_seq = NumClients
    /\ client_risks =
          { [id |-> 2 * c - 1, client_id |-> c, risk_id |-> "PHY-001",
             risk_name |-> "Flood", domain |-> "Physical", probability |-> 4] :
                c \in ClientIds }
          \cup
          { [id |-> 2 * c, client_id |-> c, risk_id |-> "DIG-001",
             risk_name |-> "Ransomware", domain |-> "Digital", probability |-> 4] :
                c \in ClientIds }
    /\ risk_assessments = {}
    /\ summary = [kind |-> "not_run"]
    /\ last_saved = NeverSaved
    /\ NoResult
    /\ NoCalculator
    /\ NoRiskPrioritization
    /\ NothingLater

StoreNext ==
    \/ SaveAssessmentFor
    \/ DeleteClient

StoreSpec == StoreInit /\ [][StoreNext]_vars

\* ----------------------------------------------------- probability engine
\* Probability Factor Weights (must sum to 1.0), in hundredths
PROBABILITY_WEIGHTS_UNBALANCED ==
    [historical_frequency |-> 30, trend_direction |-> 25,
     current_conditions |-> 25, geographic_exposure |-> 25]

PROBABILITY_WEIGHTS ==
    [historical_frequency |-> 30, trend_direction |-> 25,
     current_conditions |-> 25, geographic_exposure |-> 20]

\* the weights the engine applies to its four factors: the defaults, under
\* the names the results carry
FACTOR_WEIGHTS ==
    [historical_frequency |-> PROBABILITY_WEIGHTS.historical_frequency,
     trend_direction      |-> PROBABILITY_WEIGHTS.trend_direction,
     current_conditions   |-> PROBABILITY_WEIGHTS.current_conditions,
     exposure_factor      |-> PROBABILITY_WEIGHTS.geographic_exposure]

FactorNames == DOMAIN FACTOR_WEIGHTS

\* a factor value in [0, 1], in tenths
FactorValues == { (10 * k) \div FactorSteps : k \in 0 .. FactorSteps }

\* the four factors derived from the signals, and the factors whose signal
\* was tagged live_api
SignalSets == [factors : [FactorNames -> FactorValues], live : SUBSET FactorNames]

RECURSIVE weighted_sum(_, _, _)
weighted_sum(factors, weights, names) ==
    IF names = {} THEN 0
    ELSE LET n == CHOOSE name \in names : TRUE
         IN factors[n] * weights[n] + weighted_sum(factors, weights, names \ {n})

clamp(x, low, high) == IF x < low THEN low ELSE IF x > high THEN high ELSE x

\* Final probability = sum(factor x weight), clamped to [0, 1], in thousandths;
\* confidence = fraction of the four factors that came from live signals, in
\* hundredths; data_sources_used counts the live sources
calculate_probability(signals) ==
    [kind              |-> "result",
     probability       |-> clamp(weighted_sum(signals.factors, FACTOR_WEIGHTS, FactorNames), 0, 1000),
     factors           |-> signals.factors,
     confidence        |-> (100 * Cardinality(signals.live)) \div Cardinality(FactorNames),
     data_sources_used |-> Cardinality(signals.live)]

\* calculate_all: one ProbabilityResult per input risk, keyed by the risk's id
calculate_all_probabilities(catalog, signals_of) ==
    [probabilities |->
        [id \in { catalog[i].id : i \in DOMAIN catalog } |->
            calculate_probability(signals_of[id])]]

\* one call of calculate_probability
CalculateProbability ==
    \E signals \in SignalSets :
        /\ probability_result' = calculate_probability(signals)
        /\ UNCHANGED <<pareto_vars, relevance_vars, exposure_vars, store_vars, probability_vars, risk_vars, later_vars, session_vars>>

EngineInit ==
    /\ NoCatalog
    /\ NoAssessments
    /\ NoPrioritization
    /\ client_processes = {}
    /\ process_seq = 0
    /\ OneClient
    /\ NoCalculator
    /\ NoResult
    /\ NoRiskPrioritization
    /\ NothingLater

EngineNext == CalculateProbability

EngineSpec == EngineInit /\ [][EngineNext]_vars

\* -------------------------------------------------- probability calculator
\* load_risk_database(): the catalog, each risk with its Event_ID
ProbabilityCatalog == << [Event_ID |-> "PHY-001"], [Event_ID |-> "DIG-001"] >>

\* what fetch_probabilities may return: nothing, an empty map, a map from
\* risk identifier to a raw number, a map to ProbabilityResult-shaped objects
RemoteResults ==
    { None,
      dict(NoItems),
      dict([id \in {"PHY-001"} |-> [kind |-> "number", value |-> 700]]),
      dict([id \in {"PHY-001", "STR-009"} |->
              [kind |-> "result", probability |-> 120,
               factors |-> [n \in FactorNames |-> 1],
               confidence |-> 90, data_sources_used |-> 28]]) }

\* the signals the local engine may find for the risks of one batch
LocalSignals ==
    { [id \in {"PHY-001", "DIG-001"} |->
          [factors |-> [n \in FactorNames |-> 0], live |-> {}]],
      [id \in {"PHY-001", "DIG-001"} |->
          [factors |-> [n \in FactorNames |-> IF id = "PHY-001" THEN 10 ELSE 0],
           live |-> FactorNames]] }

\* lines 111-117: if backend_available and not backend_probs_auto_fetched:
\* backend_probs = fetch_probabilities(use_cache=True); if backend_probs: ...
auto_fetch(session, backend_available, backend_probs) ==
    IF backend_available /\ ~ session.backend_probs_auto_fetched
    THEN [calculated_probabilities   |-> IF truthy(backend_probs) THEN backend_probs
                                         ELSE session.calculated_probabilities,
          backend_probs_auto_fetched |-> IF truthy(backend_probs) THEN TRUE
                                         ELSE session.backend_probs_auto_fetched,
          fetched |-> TRUE]
    ELSE [calculated_probabilities   |-> session.calculated_probabilities,
          backend_probs_auto_fetched |-> session.backend_probs_auto_fetched,
          fetched |-> FALSE]

\* _calculate_local_probabilities: every risk gets risk['id'] = Event_ID, and
\* the session takes results.get('probabilities', {})
calculate_local_probabilities(catalog, signals_of) ==
    LET prepared == [i \in DOMAIN catalog |-> [id |-> catalog[i].Event_ID]]
    IN dict(calculate_all_probabilities(prepared, signals_of).probabilities)

\* the button block with the local engine run whatever the backend returned
on_calculate_local_always(stored, backend_available, backend_probs, signals_of) ==
    [calculated_probabilities |-> calculate_local_probabilities(ProbabilityCatalog, signals_of),
     fetched |-> backend_available,
     local_engine_ran |-> TRUE]

\* the button block with whatever the backend returned stored, no fallback
on_calculate_no_fallback(stored, backend_available, backend_probs, signals_of) ==
    IF backend_available
    THEN [calculated_probabilities |-> IF backend_probs = None THEN stored ELSE backend_probs,
          fetched |-> TRUE,
          local_engine_ran |-> FALSE]
    ELSE [calculated_probabilities |-> calculate_local_probabilities(ProbabilityCatalog, signals_of),
          fetched |-> FALSE,
          local_engine_ran |-> TRUE]

\* lines 129-141, the button "Fetch Backend Probabilities" / "Recalculate
\* Locally" pressed: fetch_probabilities(use_cache=False) when the backend is
\* available, the local engine when it is not or returned nothing
on_calculate(stored, backend_available, backend_probs, signals_of) ==
    IF backend_available /\ truthy(backend_probs)
    THEN [calculated_probabilities |-> backend_probs,
          fetched |-> TRUE,
          local_engine_ran |-> FALSE]
    ELSE [calculated_probabilities |-> calculate_local_probabilities(ProbabilityCatalog, signals_of),
          fetched |-> backend_available,
          local_engine_ran |-> TRUE]

\* what a call of fetch_probabilities that returned backend_probs is remembered as
outcome(backend_probs) == IF truthy(backend_probs) THEN "data" ELSE "no data"

NotFetched == [kind |-> "not fetched"]

\* the buttons of the page; a rerun nobody clicked for (a toggle, another
\* widget, st.rerun()) has "none"
Clicks == { "none", "calculate", "clear" }

\* one run of probability_calculator for the open client
ProbabilityCalculator ==
    \E backend_available \in BOOLEAN, clicked \in Clicks,
       auto_probs \in RemoteResults, button_probs \in RemoteResults,
       signals_of \in LocalSignals :
        LET session == [calculated_probabilities   |-> calculated_probabilities,
                        backend_probs_auto_fetched |-> backend_probs_auto_fetched]
            auto    == auto_fetch(session, backend_available, auto_probs)
            button  == IF clicked = "calculate"
                       THEN on_calculate(auto.calculated_probabilities, backend_available,
                                         button_probs, signals_of)
                       ELSE [calculated_probabilities |-> auto.calculated_probabilities,
                             fetched |-> FALSE, local_engine_ran |-> FALSE]
        IN \* the first run of the page shows the buttons; st.rerun() after
           \* "clear" starts a run without a click
           /\ (~ pc_run.ran \/ pc_run.clicked = "clear") => clicked = "none"
           \* a result that was not asked for is not an input
           /\ ~ auto.fetched => auto_probs = None
           /\ ~ button.fetched => button_probs = None
           /\ clicked # "calculate" => signals_of = CHOOSE x \in LocalSignals : TRUE
           /\ calculated_probabilities' =
                  IF clicked = "clear" THEN dict(NoItems) ELSE button.calculated_probabilities
           /\ backend_probs_auto_fetched' = auto.backend_probs_auto_fetched
           /\ pc_run' = [ran |-> TRUE,
                         backend_available |-> backend_available,
                         clicked |-> clicked,
                         before |-> calculated_probabilities,
                         previous_remote |-> last_remote,
                         auto_fetched |-> auto.fetched,
                         auto_probs |-> IF auto.fetched THEN auto_probs ELSE NotFetched,
                         after_auto |-> auto.calculated_probabilities,
                         button_fetched |-> button.fetched,
                         button_probs |-> IF button.fetched THEN button_probs ELSE NotFetched,
                         local_engine_ran |-> button.local_engine_ran]
           /\ last_remote' = IF button.fetched THEN outcome(button_probs)
                             ELSE IF auto.fetched THEN outcome(auto_probs)
                             ELSE last_remote
           /\ UNCHANGED <<pareto_vars, relevance_vars, exposure_vars, store_vars, engine_vars, risk_vars, later_vars, session_vars>>

ProbabilityInit ==
    /\ NoCatalog
    /\ NoAssessments
    /\ NoPrioritization
    /\ client_processes = {}
    /\ process_seq = 0
    /\ OneClient
    /\ NoResult
    /\ NoCalculator
    /\ NoRiskPrioritization
    /\ NothingLater

ProbabilityNext == ProbabilityCalculator

ProbabilitySpec == ProbabilityInit /\ [][ProbabilityNext]_vars

\* ------------------------------------------------------ risk_prioritization
\* SELECT * FROM client_risks WHERE client_id = ? [AND is_prioritized = 1]
\* ORDER BY probability DESC: every row order the query may produce
get_client_risks(table, client_id, prioritized_only) ==
    LET rows == { r \in table : /\ r.client_id = client_id
                                /\ prioritized_only => r.is_prioritized = 1 }
    IN { s \in Orderings(rows) :
            \A i, j \in DOMAIN s : i < j => s[i].probability >= s[j].probability }

\* risk_lookup.get(risk_id, {}): the last catalog entry with that Event_ID,
\* and a risk without keys when there is none
NoRisk == [Event_Description |-> <<>>, Super_Risk |-> <<>>]
risk_lookup(catalog, risk_id) ==
    LET hits == { i \in DOMAIN catalog : catalog[i].Event_ID = risk_id }
    IN IF hits = {} THEN NoRisk
       ELSE catalog[CHOOSE i \in hits : \A j \in hits : j <= i]

manufacturing == <<"m", "a", "n", "u", "f", "a", "c", "t", "u", "r", "i", "n", "g">>
technology == <<"t", "e", "c", "h", "n", "o", "l", "o", "g", "y">>
finance == <<"f", "i", "n", "a", "n", "c", "e">>
healthcare == <<"h", "e", "a", "l", "t", "h", "c", "a", "r", "e">>
retail == <<"r", "e", "t", "a", "i", "l">>
energy == <<"e", "n", "e", "r", "g", "y">>

industry_domain_match ==
    [k \in {manufacturing, technology, finance, healthcare, retail, energy} |->
        IF k = manufacturing THEN {"Physical", "Operational"}
        ELSE IF k = technology THEN {"Digital", "Operational"}
        ELSE IF k = finance THEN {"Digital", "Structural"}
        ELSE IF k = healthcare THEN {"Operational", "Digital"}
        ELSE IF k = retail THEN {"Structural", "Operational"}
        ELSE {"Physical", "Operational"}]

\* the score of one risk before the cap: base 50 and the four bonuses;
\* probability is in tenths
risk_relevance(risk, full_risk, client) ==
    LET industry  == lower(client.industry)
        risk_desc == lower(full_risk.Event_Description)
        is_super  == full_risk.Super_Risk = YES
        prob      == risk.probability
    IN 50
       + (IF industry # <<>> /\ contains(risk_desc, industry) THEN 15 ELSE 0)
       + (IF is_super THEN 20 ELSE 0)
       + (IF prob >= 6 THEN 15 ELSE IF prob >= 4 THEN 10 ELSE 0)
       + (IF /\ industry \in DOMAIN industry_domain_match
             /\ risk.domain \in industry_domain_match[industry]
          THEN 10 ELSE 0)

\* the score as it is computed, no cap applied
uncapped(score) == score

\* min(relevance_score, 100)
capped(score) == IF score < 100 THEN score ELSE 100

\* the scoring loop and scored_risks.sort(key=relevance_score, reverse=True)
score_risks(rows, catalog, client) ==
    LET scored == [i \in DOMAIN rows |->
                     LET full_risk == risk_lookup(catalog, rows[i].risk_id)
                     IN [id |-> rows[i].id, risk_id |-> rows[i].risk_id,
                         domain |-> rows[i].domain, probability |-> rows[i].probability,
                         is_super |-> full_risk.Super_Risk = YES,
                         relevance_score |->
                             capped(risk_relevance(rows[i], full_risk, client))]]
        order  == SortedDesc([i \in DOMAIN scored |-> scored[i].relevance_score])
    IN [i \in DOMAIN order |-> scored[order[i]]]

\* the slider: min_value=0, max_value=100, step=10
RiskThresholds == { t \in 0 .. 100 : t % 10 = 0 }

\* the filter with > in the place of >=
selected_risks_above(scored, limit) ==
    SelectSeq(scored, LAMBDA r : r.relevance_score > limit)

\* [r for r in scored_risks if r['relevance_score'] >= threshold]
selected_risks(scored, limit) ==
    SelectSeq(scored, LAMBDA r : r.relevance_score >= limit)

\* one run of risk_prioritization for the open client, down to line 371
RiskPrioritization ==
    \E rows \in get_client_risks(client_risks, current_client_id, TRUE) :
        LET scored == score_risks(rows, risks, client_info)
        IN /\ IF rows = <<>>
              THEN \* st.warning("No risks selected for this client. ...") and return
                   /\ rp_result' = [kind |-> "warning", scored_risks |-> <<>>]
                   /\ UNCHANGED <<risk_threshold, prioritized_risks>>
              ELSE /\ rp_result' = [kind |-> "list", scored_risks |-> scored]
                   /\ \E slider \in RiskThresholds :
                         LET selected == selected_risks(rp_result'.scored_risks, slider)
                         IN /\ risk_threshold' = slider
                            /\ prioritized_risks' = [i \in DOMAIN selected |-> selected[i].id]
           /\ UNCHANGED <<pareto_vars, relevance_vars, exposure_vars, store_vars,
                          engine_vars, probability_vars, later_vars, session_vars>>

\* the risk database the pages load
RiskDatabase ==
    << [Event_ID |-> "PHY-001",
        Event_Name |-> <<"G", "r", "i", "d", " ", "F", "a", "i", "l", "u", "r", "e">>,
        Event_Description |-> <<"E", "n", "e", "r", "g", "y", " ", "g", "r", "i", "d", " ", "f", "a", "i", "l", "u", "r", "e">>,
        Affected_Industries |-> <<"O", "i", "l", " ", "a", "n", "d", " ", "R", "e", "t", "a", "i", "l">>,
        Geographic_Scope |-> <<"G", "l", "o", "b", "a", "l">>,
        Super_Risk |-> <<"Y", "E", "S">>, base_probability |-> 8],
       [Event_ID |-> "DIG-001",
        Event_Name |-> <<"R", "a", "n", "s", "o", "m", "w", "a", "r", "e">>,
        Event_Description |-> <<"D", "a", "t", "a", " ", "e", "n", "c", "r", "y", "p", "t", "e", "d">>,
        Affected_Industries |-> <<"A", "l", "l", " ", "I", "n", "d", "u", "s", "t", "r", "i", "e", "s">>,
        Geographic_Scope |-> <<"E", "u", "r", "o", "p", "e">>,
        Super_Risk |-> <<"N", "O">>, base_probability |-> Absent] >>

\* a sectors text of one keyword, and one of 51 entries "o"
ManySectors ==
    <<"o", ",", "o", ",", "o", ",", "o", ",", "o", ",", "o", ",", "o", ",", "o", ",", "o", ",", "o", ",", "o", ",", "o", ",", "o", ",", "o", ",", "o", ",", "o", ",", "o", ",", "o", ",", "o", ",", "o", ",", "o", ",", "o", ",", "o", ",", "o", ",", "o", ",", "o", ",", "o", ",", "o", ",", "o", ",", "o", ",", "o", ",", "o", ",", "o", ",", "o", ",", "o", ",", "o", ",", "o", ",", "o", ",", "o", ",", "o", ",", "o", ",", "o", ",", "o", ",", "o", ",", "o", ",", "o", ",", "o", ",", "o", ",", "o", ",", "o", ",", "o">>
RiskSectorTexts == { <<"R", "e", "t", "a", "i", "l">>, ManySectors }

\* the client_risks rows of the open client: two risks of the database and
\* one the database no longer holds
RiskInit ==
    /\ risks = RiskDatabase
    /\ client_info \in [industry : Industries, sectors : RiskSectorTexts,
                         location : { <<"O", "s", "l", "o">> }, export_percentage : { 50 }]
    /\ scored_risks = [kind |-> "not_run", rows |-> <<>>]
    /\ previous_scored = [kind |-> "not_run", rows |-> <<>>]
    /\ client_processes = {}
    /\ process_seq = 0
    /\ NoPrioritization
    /\ \E p1 \in {3, 6}, p2 \in {4, 6}, p3 \in {3, 6}, s1, s2, s3 \in {0, 1} :
          client_risks =
              { [id |-> 1, client_id |-> current_client_id, risk_id |-> "PHY-001",
                 risk_name |-> "Grid Failure", domain |-> "Physical",
                 probability |-> p1, is_prioritized |-> s1],
                [id |-> 2, client_id |-> current_client_id, risk_id |-> "DIG-001",
                 risk_name |-> "Ransomware", domain |-> "Digital",
                 probability |-> p2, is_prioritized |-> s2],
                [id |-> 3, client_id |-> current_client_id, risk_id |-> "OLD-404",
                 risk_name |-> "Retired Risk", domain |-> "Operational",
                 probability |-> p3, is_prioritized |-> s3] }
    /\ risk_assessments = {}
    /\ summary = [kind |-> "not_run"]
    /\ OneClient
    /\ NoResult
    /\ NoCalculator
    /\ NoRiskPrioritization
    /\ NothingLater

RiskNext ==
    \/ RiskPrioritization
    \/ FilterRisksByRelevance

RiskSpec == RiskInit /\ [][RiskNext]_vars

\* ------------------------------------------------------- data source cache
\* The table external_data_cache is created by init_database; the functions
\* that read and write it are the cache contract get / put / purge_expired.
\* A row carries the columns the contract speaks of: source_name, data_key,
\* data_value (the payload) and expires_at (an hour of the clock).

\* UNIQUE(source_name, data_key) without the constraint: two rows only
\* collide when they are the same row
cache_unique_none == { "source_name", "data_key", "data_value", "expires_at" }

\* UNIQUE(source_name, data_key): the columns of the table's uniqueness constraint
cache_unique == { "source_name", "data_key" }

\* two rows collide on the uniqueness constraint
cache_conflict(a, b) == \A column \in cache_unique : a[column] = b[column]

\* put(source, key, payload, ttl) at hour time: the row replaces the rows it
\* collides with, and its expiry is time + ttl
put(table, source, key, payload, ttl, time) ==
    LET row == [source_name |-> source, data_key |-> key, data_value |-> payload,
                expires_at |-> time + ttl]
    IN { r \in table : ~ cache_conflict(r, row) } \cup {row}

\* a row is a miss when its expiry is at or before the current time
expired(row, time) == row.expires_at <= time

Miss == "miss"

\* get(source, key) at hour time: the payloads it can return (one per live
\* row of the key), or a miss when the key has no live row
get(table, source, key, time) ==
    LET found == { r \in table : /\ r.source_name = source
                                 /\ r.data_key = key
                                 /\ ~ expired(r, time) }
    IN IF found = {} THEN {Miss} ELSE { r.data_value : r \in found }

\* purge_expired() at hour time: the table without its expired rows, and the
\* count of rows removed
purge_expired(table, time) ==
    [table |-> { r \in table : ~ expired(r, time) },
     count |-> Cardinality({ r \in table : expired(r, time) })]

CacheSources == { "weather" }
CacheKeys == { "oslo", "rome" }
CachePayloads == { "rain", "sun" }
\* refresh intervals that start at no time at all
CacheTtlsFromZero == 0 .. MaxTtl
\* refresh intervals are whole hours, one hour at least ("Refresh interval",
\* "Refresh Interval (hours)" of the data sources page)
CacheTtls == 1 .. MaxTtl

\* the record of one put; replaced tells that the key had a row with another
\* payload and another expiry when put was called
PutRecord(table, source, key, payload, ttl, time) ==
    [data_value |-> payload, expires_at |-> time + ttl, at |-> time,
     replaced |-> \E r \in table : /\ r.source_name = source
                                   /\ r.data_key = key
                                   /\ r.data_value # payload
                                   /\ r.expires_at # time + ttl]

\* one call of put
CachePut ==
    \E source \in CacheSources, key \in CacheKeys, payload \in CachePayloads,
       ttl \in CacheTtls :
        /\ external_data_cache' = put(external_data_cache, source, key, payload, ttl, now)
        /\ cache_put' = [k \in DOMAIN cache_put \cup {<<source, key>>} |->
                            IF k = <<source, key>>
                            THEN PutRecord(external_data_cache, source, key, payload, ttl, now)
                            ELSE cache_put[k]]
        /\ cache_got' = [kind |-> "none"]
        /\ UNCHANGED now
        /\ UNCHANGED <<pareto_vars, relevance_vars, exposure_vars, further_vars, seed_vars, save_vars, session_vars>>

\* one call of get
CacheGet ==
    \E source \in CacheSources, key \in CacheKeys :
        \E result \in get(external_data_cache, source, key, now) :
            /\ cache_got' = [kind |-> "get", source |-> source, key |-> key,
                             result |-> result, at |-> now]
            /\ UNCHANGED <<external_data_cache, now, cache_put>>
            /\ UNCHANGED <<pareto_vars, relevance_vars, exposure_vars, further_vars, seed_vars, save_vars, session_vars>>

\* the button "Clear Expired Cache": one call of purge_expired
ClearExpiredCache ==
    /\ external_data_cache' = purge_expired(external_data_cache, now).table
    /\ UNCHANGED <<now, cache_got, cache_put>>
    /\ UNCHANGED <<pareto_vars, relevance_vars, exposure_vars, further_vars, seed_vars, save_vars, session_vars>>

\* an hour passes
Tick ==
    /\ now < MaxTime
    /\ now' = now + 1
    /\ UNCHANGED <<external_data_cache, cache_got, cache_put>>
    /\ UNCHANGED <<pareto_vars, relevance_vars, exposure_vars, further_vars, seed_vars, save_vars, session_vars>>

CacheInit ==
    /\ NoCatalog
    /\ NoAssessments
    /\ NoPrioritization
    /\ client_processes = {}
    /\ process_seq = 0
    /\ NothingFurther
    /\ NoCache
    /\ NoSeeding
    /\ NoRiskSave
    /\ NoSession

CacheNext ==
    \/ CachePut
    \/ CacheGet
    \/ ClearExpiredCache
    \/ Tick

CacheSpec == CacheInit /\ [][CacheNext]_vars

\* --------------------------------------------------------------- demo data
\* The database as seed_demo_clients sees it: table clients (ids and names),
\* table client_processes, and their AUTOINCREMENT counters.
Database == [clients |-> clients, client_name |-> client_name, client_seq |-> client_seq, client_processes |-> client_processes, process_seq |-> process_seq]

\* DEMO_CLIENTS: the first and the last entry of the list, each with its
\* name and its first processes (id and criticality)
DEMO_CLIENTS ==
    << [name |-> "AutoStahl GmbH",
        processes |-> << [id |-> "1.0", criticality |-> 120000],
                         [id |-> "2.0", criticality |-> 420000] >>],
       [name |-> "SolarVerde Energia SA",
        processes |-> << [id |-> "1.0", criticality |-> 95000] >>] >>

\* INSERT INTO clients: a new row with the next AUTOINCREMENT id; lastrowid is
\* the client_seq of the result
create_client(db, name) ==
    [db EXCEPT !.clients = @ \cup {db.client_seq + 1},
               !.client_name = [c \in DOMAIN @ \cup {db.client_seq + 1} |->
                                   IF c = db.client_seq + 1 THEN name ELSE @[c]],
               !.client_seq = @ + 1]

\* SELECT * FROM clients: the rows as dicts
get_all_clients(db) == { [id |-> c, name |-> db.client_name[c]] : c \in db.clients }

\* existing_names left empty: no client is looked up
existing_names_unchecked(existing) == {}

\* the set of the names of the existing clients
existing_names(existing) == { c.name : c \in existing }

\* where a database call of one seed_demo_clients call raises, if one does
NoFault == [at |-> "none", client |-> 0, process |-> 0]
Faults ==
    {NoFault, [at |-> "get_all_clients", client |-> 0, process |-> 0]}
    \cup { [at |-> "create_client", client |-> i, process |-> 0] : i \in DOMAIN DEMO_CLIENTS }
    \cup { [at |-> "add_client_process", client |-> i, process |-> j] :
              i \in DOMAIN DEMO_CLIENTS, j \in 1 .. 2 }

\* the loop over client_data["processes"]: add_client_process for each, an
\* exception of one call logged and the loop continued
RECURSIVE add_processes(_, _, _, _, _)
add_processes(db, client_id, processes, failing, j) ==
    IF j > Len(processes) THEN db
    ELSE add_processes(
            IF j = failing THEN db
            ELSE [db EXCEPT !.client_processes =
                                add_client_process(@, db.process_seq, client_id,
                                                   processes[j].id, processes[j].criticality),
                            !.process_seq = @ + 1],
            client_id, processes, failing, j + 1)

\* the loop over DEMO_CLIENTS from entry i on: a name among the existing names
\* is skipped; an exception of create_client ends the loop in the outer handler
RECURSIVE seed_from(_, _, _, _)
seed_from(db, names, fault, i) ==
    IF i > Len(DEMO_CLIENTS) THEN [db |-> db, caught |-> FALSE]
    ELSE LET client_data == DEMO_CLIENTS[i]
         IN IF client_data.name \in names THEN seed_from(db, names, fault, i + 1)
            ELSE IF fault.at = "create_client" /\ fault.client = i
                 THEN [db |-> db, caught |-> TRUE]
                 ELSE LET created == create_client(db, client_data.name)
                          failing == IF fault.at = "add_client_process" /\ fault.client = i
                                     THEN fault.process ELSE 0
                      IN seed_from(add_processes(created, created.client_seq,
                                                 client_data.processes, failing, 1),
                                   names, fault, i + 1)

\* seed_demo_clients(): the database it leaves, whether the outer handler
\* caught an exception, and what the call returned
seed_demo_clients(db, fault) ==
    LET done == IF fault.at = "get_all_clients"
                THEN [db |-> db, caught |-> TRUE]
                ELSE seed_from(db, existing_names(get_all_clients(db)), fault, 1)
    IN [db |-> done.db, caught |-> done.caught, returned |-> "True"]

\* one call of seed_demo_clients
SeedDemoClients ==
    \E fault \in Faults :
        LET result == seed_demo_clients(Database, fault)
        IN /\ result.db.client_seq <= MaxClientId
           /\ clients' = result.db.clients
           /\ client_name' = result.db.client_name
           /\ client_seq' = result.db.client_seq
           /\ client_processes' = result.db.client_processes
           /\ process_seq' = result.db.process_seq
           /\ seed_log' = [ran |-> TRUE, fault |-> fault, before |-> Database,
                           after |-> result.db, caught |-> result.caught,
                           returned |-> result.returned]
           /\ UNCHANGED <<threshold, prioritized_processes, pareto_data, pp_result, pp_warning>>
           /\ UNCHANGED <<relevance_vars, exposure_vars, last_saved, engine_vars,
                          probability_vars, risk_vars, cache_vars, save_vars, session_vars>>

DemoNames == { DEMO_CLIENTS[i].name : i \in DOMAIN DEMO_CLIENTS }
\* company names typed into the profile form: any text that is not empty
CompanyNames == DemoNames \cup { "Nordic Freight AS" }

\* the button "New Client": no client is open and the selection is empty
NewClient ==
    /\ session_client_id' = NoClient
    /\ session_selected_processes' = {}
    /\ selection_loaded_for' = NoClient
    /\ UNCHANGED <<session_selected_risks, assessment_processes, assessment_risks>>
    /\ UNCHANGED <<pareto_vars, relevance_vars, exposure_vars, further_vars, later_vars>>

\* the company profile form submitted with no client open:
\* create_client(name=name, ...), and the new client becomes the open one
CreateClient ==
    \E name \in CompanyNames :
        LET created == create_client(Database, name)
        IN /\ session_client_id = NoClient
           /\ created.client_seq <= MaxClientId
           /\ clients' = created.clients
           /\ client_name' = created.client_name
           /\ client_seq' = created.client_seq
           /\ session_client_id' = created.client_seq
           /\ UNCHANGED <<session_selected_processes, session_selected_risks,
                          assessment_processes, assessment_risks, selection_loaded_for>>
           /\ UNCHANGED <<seed_log, client_processes, process_seq>>
           /\ UNCHANGED <<threshold, prioritized_processes, pareto_data, pp_result, pp_warning>>
           /\ UNCHANGED <<relevance_vars, exposure_vars, last_saved, engine_vars,
                          probability_vars, risk_vars, cache_vars, save_vars>>

\* a fresh database: no client, no process
SeedInit ==
    /\ NoCatalog
    /\ NoAssessments
    /\ NoPrioritization
    /\ client_processes = {}
    /\ process_seq = 0
    /\ clients = {}
    /\ last_saved = NeverSaved
    /\ NoResult
    /\ NoCalculator
    /\ NoRiskPrioritization
    /\ NoCache
    /\ NoSeeding
    /\ NoRiskSave
    /\ NoSession

SeedNext ==
    \/ SeedDemoClients
    \/ NewClient
    \/ CreateClient
    \/ DeleteClient

SeedSpec == SeedInit /\ [][SeedNext]_vars

\* ------------------------------------------------------ a session of pages
\* One browser session walking through the pages Client Setup, Process
\* Criticality, Risk Selection and Prioritization.  Every action is one run
\* of a page after one thing the user did; moving from page to page changes
\* nothing by itself.

\* set(p['process_id'] for p in get_client_processes(client_id))
saved_process_ids(table, client_id) == { r.process_id : r \in { x \in table : x.client_id = client_id } }

\* set(r['risk_id'] for r in get_client_risks(client_id, prioritized_only=True))
prioritized_risk_ids(table, client_id) == { r.risk_id : r \in { x \in table : x.client_id = client_id /\ x.is_prioritized = 1 } }

\* a process id that load_process_framework() does not hold
OffFramework == 0

\* Client Setup, a client's button in the sidebar: the client is opened and
\* its saved processes become the selection
SelectClient ==
    \E c \in clients :
        /\ session_client_id' = c
        /\ session_selected_processes' = saved_process_ids(client_processes, c)
        /\ selection_loaded_for' = c
        /\ UNCHANGED <<session_selected_risks, assessment_processes, assessment_risks>>
        /\ UNCHANGED <<pareto_vars, relevance_vars, exposure_vars, further_vars, later_vars>>

\* Process Criticality, the selectbox of the sidebar on another client than
\* the open one: the client is opened and its saved processes become the selection
ProcessCriticalitySidebar ==
    \E selected_id \in clients :
        /\ selected_id # session_client_id
        /\ session_client_id' = selected_id
        /\ session_selected_processes' = saved_process_ids(client_processes, selected_id)
        /\ selection_loaded_for' = selected_id
        /\ UNCHANGED <<session_selected_risks, assessment_processes, assessment_risks>>
        /\ UNCHANGED <<pareto_vars, relevance_vars, exposure_vars, further_vars, later_vars>>

\* Risk Selection, the selectbox of the sidebar on another client than the
\* open one: the client is opened and its prioritized risks become selected_risks
RiskSelectionSidebar ==
    \E selected_id \in clients :
        /\ selected_id # session_client_id
        /\ session_client_id' = selected_id
        /\ session_selected_risks' = prioritized_risk_ids(client_risks, selected_id)
        /\ UNCHANGED <<session_selected_processes, selection_loaded_for,
                       assessment_processes, assessment_risks>>
        /\ UNCHANGED <<pareto_vars, relevance_vars, exposure_vars, further_vars, later_vars>>

\* process_selection, a checkbox of a framework process ticked or cleared
ToggleProcess ==
    \E pid \in Framework :
        /\ session_client_id # NoClient
        /\ session_selected_processes' =
              IF pid \in session_selected_processes
              THEN session_selected_processes \ {pid}
              ELSE session_selected_processes \cup {pid}
        /\ UNCHANGED <<session_client_id, session_selected_risks, selection_loaded_for,
                       assessment_processes, assessment_risks>>
        /\ UNCHANGED <<pareto_vars, relevance_vars, exposure_vars, further_vars, later_vars>>

\* the inserts of "Save Process Selection", in the iteration order of the set
RECURSIVE AddSelected(_, _, _, _)
AddSelected(table, seq, client_id, order) ==
    IF order = <<>> THEN table
    ELSE AddSelected(add_client_process(table, seq, client_id, Head(order), 0),
                     seq + 1, client_id, Tail(order))

\* the selected processes to insert, the framework not asked
new_processes_unchecked(selection, saved_ids, processes) ==
    { pid \in selection : pid \notin saved_ids }

\* the selected processes to insert: pid not in saved_ids and pid in processes
new_processes(selection, saved_ids, processes) ==
    { pid \in selection : pid \notin saved_ids /\ pid \in processes }

\* the handler of "Save Process Selection" (Client Setup and Process
\* Criticality carry the same code): the table it leaves
save_process_selection(table, seq, client_id, selection, order) ==
    LET saved_processes == { r \in table : r.client_id = client_id }
        removed == { r.id : r \in { x \in saved_processes : x.process_id \notin selection } }
    IN DeleteEach(AddSelected(table, seq, client_id, order), removed)

\* one press of "Save Process Selection"
SaveProcessSelection ==
    /\ session_client_id # NoClient
    /\ LET saved_ids == saved_process_ids(client_processes, session_client_id)
           to_add    == new_processes(session_selected_processes, saved_ids, Framework)
       IN /\ process_seq + Cardinality(to_add) <= MaxSelectionRowId
          /\ \E order \in Orderings(to_add) :
                client_processes' =
                    save_process_selection(client_processes, process_seq, session_client_id,
                                           session_selected_processes, order)
          /\ process_seq' = process_seq + Cardinality(to_add)
    /\ UNCHANGED <<threshold, prioritized_processes, pareto_data, pp_result, pp_warning>>
    /\ UNCHANGED <<relevance_vars, exposure_vars, further_vars, later_vars, session_vars>>

\* the profile the risk tab scores the risks against
SessionClientInfo == [industry |-> <<>>, sectors |-> <<>>, location |-> <<>>, export_percentage |-> 0]

\* positions of the two sliders of the Prioritization page
PageThresholds == { 80, 100 }
PageRiskThresholds == { 50, 100 }

\* st.session_state.assessment_processes = selected_process_ids
Handed(ids) == [kind |-> "list", ids |-> ids]

\* one run of the Prioritization page: the sidebar (a change of client empties
\* both lists and reruns), main's check for processes and risks, the tabs
\* process_prioritization and risk_prioritization, and matrix_preview with
\* its button "Proceed to Risk Assessment"
PrioritizationPage ==
    \E selected_id \in clients, slider \in PageThresholds,
       risk_slider \in PageRiskThresholds, proceed \in BOOLEAN :
    \E processes \in get_client_processes(client_processes, selected_id),
       rows \in get_client_risks(client_risks, selected_id, TRUE) :
        LET switched        == selected_id # session_client_id
            start_processes == IF switched THEN <<>> ELSE prioritized_processes
            start_risks     == IF switched THEN <<>> ELSE prioritized_risks
            drawn           == processes # <<>> /\ rows # <<>>
            sorted          == sorted_processes(processes)
            total           == total_criticality(sorted)
            after_processes == IF drawn /\ ~ zero_total(total)
                               THEN selected_processes(pareto_rows(sorted, total), slider)
                               ELSE start_processes
            selected        == selected_risks(score_risks(rows, RiskDatabase, SessionClientInfo),
                                              risk_slider)
            after_risks     == IF drawn THEN [i \in DOMAIN selected |-> selected[i].id]
                               ELSE start_risks
            offered         == drawn /\ after_processes # <<>> /\ after_risks # <<>>
        IN /\ session_client_id' = selected_id
           /\ prioritized_processes' = after_processes
           /\ prioritized_risks' = after_risks
           /\ risk_threshold' = IF drawn THEN risk_slider ELSE risk_threshold
           /\ IF offered /\ proceed
              THEN /\ assessment_processes' = Handed(after_processes)
                   /\ assessment_risks' = Handed(after_risks)
              ELSE UNCHANGED <<assessment_processes, assessment_risks>>
           /\ ForgetLocals
           /\ UNCHANGED <<session_selected_processes, session_selected_risks, selection_loaded_for>>
           /\ UNCHANGED <<client_processes, process_seq, rp_result>>
           /\ UNCHANGED <<relevance_vars, exposure_vars, store_vars, engine_vars,
                          probability_vars, later_vars>>

\* two clients: the first with a framework process that has a criticality,
\* the second with a process the framework does not hold and no criticality
\* yet; each with one prioritized risk
SessionInit ==
    /\ NoCatalog
    /\ NoPrioritization
    /\ clients = 1 .. 2
    /\ last_saved = NeverSaved
    /\ client_processes =
          { [id |-> 1, client_id |-> 1, process_id |-> 1, criticality_per_day |-> 100000],
            [id |-> 2, client_id |-> 2, process_id |-> OffFramework, criticality_per_day |-> 0] }
    /\ process_seq = 2
    /\ client_risks =
          { [id |-> 1, client_id |-> 1, risk_id |-> "PHY-001", risk_name |-> "Grid Failure",
             domain |-> "Physical", probability |-> 6, is_prioritized |-> 1],
            [id |-> 2, client_id |-> 2, risk_id |-> "DIG-001", risk_name |-> "Ransomware",
             domain |-> "Digital", probability |-> 4, is_prioritized |-> 1] }
    /\ risk_assessments = {}
    /\ summary = [kind |-> "not_run"]
    /\ NoResult
    /\ NoCalculator
    /\ NoRiskPrioritization
    /\ NothingLater

\* the pages that open a client, and the Prioritization page
SessionNext ==
    \/ NewClient
    \/ SelectClient
    \/ ProcessCriticalitySidebar
    \/ RiskSelectionSidebar
    \/ PrioritizationPage

SessionSpec == SessionInit /\ [][SessionNext]_vars

\* the pages that open a client, and the selection of processes
SelectionNext ==
    \/ NewClient
    \/ SelectClient
    \/ ProcessCriticalitySidebar
    \/ RiskSelectionSidebar
    \/ ToggleProcess
    \/ SaveProcessSelection

SelectionSpec == SessionInit /\ [][SelectionNext]_vars

\* ---------------------------------------------------- risk selection saves
\* add_client_risk: INSERT OR REPLACE INTO client_risks (client_id, risk_id,
\* ...) VALUES (...); the table has no UNIQUE constraint beside its
\* autoincremented id, so the statement always inserts a row
add_client_risk(table, seq, client_id, risk_id, risk_name, domain, probability, is_prioritized) ==
    table \cup { [id |-> seq + 1, client_id |-> client_id, risk_id |-> risk_id,
                  risk_name |-> risk_name, domain |-> domain,
                  probability |-> probability, is_prioritized |-> is_prioritized] }

\* the keyword arguments update_client_process and update_client_risk leave
\* out of the SET clause
update_skipped == { "id", "client_id", "created_at" }

\* fields / values of an update: the keyword arguments but the skipped ones
set_fields(kwargs, skipped) == [ k \in (DOMAIN kwargs) \ skipped |-> kwargs[k] ]

\* the column SQLite takes a name of the SET clause for: names are matched
\* without regard to case, and rowid names the INTEGER PRIMARY KEY column
ColumnAliases ==
    [ k \in { "ID", "rowid", "Created_At", "Client_ID" } |->
        CASE k = "ID" -> "id"
          [] k = "rowid" -> "id"
          [] k = "Created_At" -> "created_at"
          [] k = "Client_ID" -> "client_id" ]
column_of(key) == IF key \in DOMAIN ColumnAliases THEN ColumnAliases[key] ELSE key

\* the columns a SET clause assigns, each name resolved by SQLite; when a
\* column is named twice the rightmost assignment counts, and the clauses
\* modelled name none twice but updated_at, which update_client appends
assigned(fields) ==
    [ c \in { column_of(k) : k \in DOMAIN fields } |->
        fields[CHOOSE k \in DOMAIN fields : column_of(k) = c] ]

\* UPDATE <table> SET <field> = ?, ... WHERE id = ?; the statement raises,
\* and the table stays as it is, when nothing is assigned (a syntax error),
\* when a name is no column, and when the new id is that of another row
update_where_id(table, id, fields) ==
    LET columns == assigned(fields)
        updated == { IF r.id = id
                     THEN [ k \in DOMAIN r |-> IF k \in DOMAIN columns THEN columns[k] ELSE r[k] ]
                     ELSE r : r \in table }
    IN IF \/ DOMAIN fields = {}
          \/ \E r \in table : ~ (DOMAIN columns \subseteq DOMAIN r)
          \/ Cardinality({ r.id : r \in updated }) # Cardinality(updated)
       THEN table
       ELSE updated

update_client_risk(table, risk_db_id, kwargs) ==
    update_where_id(table, risk_db_id, set_fields(kwargs, update_skipped))

\* {r['Event_ID']: r for r in risks}: per id the last entry of the catalog
risk_dict(catalog) ==
    [ id \in { catalog[i].Event_ID : i \in DOMAIN catalog } |-> risk_lookup(catalog, id) ]

\* no index of the existing rows: every selected risk counts as new
existing_unindexed(existing) == [ id \in {} |-> <<>> ]

\* existing_by_risk_id = {r.get('risk_id'): r for r in existing}: per risk id
\* the last row of the list
existing_by_risk_id(existing) ==
    [ id \in { existing[i].risk_id : i \in DOMAIN existing } |->
        existing[CHOOSE i \in DOMAIN existing :
                    /\ existing[i].risk_id = id
                    /\ \A j \in DOMAIN existing : existing[j].risk_id = id => j <= i] ]

\* for r in existing: update_client_risk(r['id'], client_id=client_id, is_prioritized=0)
RECURSIVE deprioritize(_, _, _)
deprioritize(table, existing, client_id) ==
    IF existing = <<>> THEN table
    ELSE deprioritize(update_client_risk(table, Head(existing).id,
                                         [client_id |-> client_id, is_prioritized |-> 0]),
                      Tail(existing), client_id)

\* risk.get('Layer_1_Primary', '')
layer_1_primary(risk) ==
    IF "Layer_1_Primary" \in DOMAIN risk THEN risk.Layer_1_Primary ELSE ""

\* the probability saved with a risk: the calculated one when dynamic
\* probabilities are used and one was calculated, else the base probability
saved_probability(risk, calculated) ==
    IF risk.Event_ID \in DOMAIN calculated THEN calculated[risk.Event_ID]
    ELSE base_probability(risk)

\* the loop of _do_save_risks over selected_risks, in the iteration order of
\* the set; db is the table, its sequence and saved_count
RECURSIVE save_selected(_, _, _, _, _, _)
save_selected(db, order, client_id, catalog_by_id, by_risk_id, calculated) ==
    IF order = <<>> THEN db
    ELSE LET risk_id == Head(order)
         IN IF risk_id \notin DOMAIN catalog_by_id
            THEN save_selected(db, Tail(order), client_id, catalog_by_id, by_risk_id, calculated)
            ELSE LET risk        == catalog_by_id[risk_id]
                     probability == saved_probability(risk, calculated)
                 IN IF risk_id \in DOMAIN by_risk_id
                    THEN save_selected(
                           [db EXCEPT !.table = update_client_risk(db.table, by_risk_id[risk_id].id,
                                                   [client_id |-> client_id, is_prioritized |-> 1,
                                                    probability |-> probability]),
                                      !.saved_count = @ + 1],
                           Tail(order), client_id, catalog_by_id, by_risk_id, calculated)
                    ELSE save_selected(
                           [db EXCEPT !.table = add_client_risk(db.table, db.seq, client_id, risk_id,
                                                   risk.Event_Name, layer_1_primary(risk),
                                                   probability, 1),
                                      !.seq = @ + 1,
                                      !.saved_count = @ + 1],
                           Tail(order), client_id, catalog_by_id, by_risk_id, calculated)

\* _do_save_risks(client_id, risk_dict), existing being what
\* get_client_risks(client_id) returned
do_save_risks(table, seq, client_id, catalog_by_id, existing, order, calculated) ==
    save_selected([table |-> deprioritize(table, existing, client_id), seq |-> seq, saved_count |-> 0],
                  order, client_id, catalog_by_id, existing_by_risk_id(existing), calculated)

\* calculated_probabilities as the save reads it: nothing calculated (or the
\* dynamic probabilities switched off), and a probability for one risk
CalculatedOffers == { [ id \in {} |-> 0 ], [ id \in {"PHY-001"} |-> 3 ] }

\* Risk Selection, a checkbox of a catalog risk ticked or cleared
\* (_on_risk_checkbox_change)
ToggleRisk ==
    \E i \in DOMAIN risks :
        LET risk_id == risks[i].Event_ID
        IN /\ session_client_id # NoClient
           /\ session_selected_risks' =
                 IF risk_id \in session_selected_risks
                 THEN session_selected_risks \ {risk_id}
                 ELSE session_selected_risks \cup {risk_id}
           /\ UNCHANGED <<session_client_id, session_selected_processes, selection_loaded_for,
                          assessment_processes, assessment_risks>>
           /\ UNCHANGED <<pareto_vars, relevance_vars, exposure_vars, further_vars, later_vars>>

\* Risk Selection, "Save Risk Selection" (and "Next: Assessment", which
\* calls the same _do_save_risks when something is selected)
SaveRiskSelection ==
    \E existing \in get_client_risks(client_risks, session_client_id, FALSE),
       order \in Orderings(session_selected_risks),
       calculated \in CalculatedOffers :
        LET db == do_save_risks(client_risks, risk_seq, session_client_id,
                                risk_dict(risks), existing, order, calculated)
        IN /\ session_client_id # NoClient
           /\ db.seq <= MaxRiskRowId
           /\ client_risks' = db.table
           /\ risk_seq' = db.seq
           /\ risk_save_log' = [kind |-> "saved", saved_count |-> db.saved_count]
           /\ UNCHANGED <<risk_assessments, summary, deleted_processes, clients_table,
                          update_log, session_vars>>
           /\ UNCHANGED <<pareto_vars, relevance_vars, further_vars, cache_vars, seed_vars>>

\* the Save button of the earlier Risk Selection page (3_Risk_Selection.py),
\* which reads the catalog by the keys 'id', 'name' and 'domain': the table
\* of risks raises KeyError before the button is drawn when an entry has no
\* 'id'; else add_client_risk is handed a dict as risk_name, which sqlite3
\* cannot bind, for the first selected risk of the catalog
legacy_save(table, selection, catalog) ==
    IF \E i \in DOMAIN catalog : "id" \notin DOMAIN catalog[i]
    THEN [kind |-> "raised", table |-> table]
    ELSE IF \E i \in DOMAIN catalog : catalog[i].id \in selection
         THEN [kind |-> "raised", table |-> table]
         ELSE [kind |-> "saved", table |-> table]

\* one visit of the earlier Risk Selection page: its sidebar, the same as the
\* later page's, then the tab of risks and its Save button
LegacyRiskSelectionPage ==
    \E selected_id \in clients :
        LET switched == selected_id # session_client_id
            selected == IF switched THEN prioritized_risk_ids(client_risks, selected_id)
                        ELSE session_selected_risks
            saved    == legacy_save(client_risks, selected, risks)
        IN /\ session_client_id' = selected_id
           /\ session_selected_risks' = selected
           /\ client_risks' = saved.table
           /\ risk_save_log' = IF saved.kind = "raised" THEN [kind |-> "raised"]
                               ELSE [kind |-> "saved", saved_count |-> 0]
           /\ UNCHANGED <<session_selected_processes, selection_loaded_for,
                          assessment_processes, assessment_risks>>
           /\ UNCHANGED <<risk_seq, risk_assessments, summary, deleted_processes,
                          clients_table, update_log>>
           /\ UNCHANGED <<pareto_vars, relevance_vars, further_vars, cache_vars, seed_vars>>

\* two clients; client 1 holds a prioritized risk of an earlier catalog
RiskSaveInit ==
    /\ NoPrioritization
    /\ risks = RiskDatabase
    /\ client_info = SessionClientInfo
    /\ scored_risks = [kind |-> "not_run", rows |-> <<>>]
    /\ previous_scored = [kind |-> "not_run", rows |-> <<>>]
    /\ clients = 1 .. 2
    /\ last_saved = NeverSaved
    /\ client_processes = {}
    /\ process_seq = 0
    /\ client_risks =
          { [id |-> 1, client_id |-> 1, risk_id |-> "OLD-404",
             risk_name |-> <<"R", "e", "t", "i", "r", "e", "d">>, domain |-> "",
             probability |-> 6, is_prioritized |-> 1] }
    /\ risk_assessments = {}
    /\ summary = [kind |-> "not_run"]
    /\ NoResult
    /\ NoCalculator
    /\ NoRiskPrioritization
    /\ NoCache
    /\ NoSeeding
    /\ risk_seq = 1
    /\ risk_save_log = [kind |-> "none"]
    /\ deleted_processes = {}
    /\ clients_table = {}
    /\ update_log = [kind |-> "none"]
    /\ NoSession

RiskSaveNext ==
    \/ SelectClient
    \/ RiskSelectionSidebar
    \/ ToggleRisk
    \/ SaveRiskSelection
    \/ LegacyRiskSelectionPage

RiskSaveSpec == RiskSaveInit /\ [][RiskSaveNext]_vars

\* ------------------------------------------- assessments of deleted rows
\* the ids save_assessment can be handed: no foreign key is enforced, so a
\* process id or a risk id need not be the id of a row; client_risks holds
\* the rows 1 and 2 here
AssessedProcessIds == 1 .. MaxJoinRowId
AssessedRiskIds == 1 .. 3
JoinInputs == { <<5, 3, 5>>, <<8, 3, 5>> }

\* one call of save_assessment for the open client, with any ids
SaveAssessmentOf ==
    \E process_id \in AssessedProcessIds, risk_id \in AssessedRiskIds, input \in JoinInputs :
        LET saved == save_assessment(risk_assessments, current_client_id, process_id, risk_id,
                                     input[1], input[2], input[3], "")
        IN /\ Cardinality(saved) <= MaxAssessments
           /\ risk_assessments' = saved
           /\ summary' = [kind |-> "not_run"]
           /\ UNCHANGED client_risks
           /\ UNCHANGED <<pareto_vars, relevance_vars, further_vars, later_vars, session_vars>>

\* one call of delete_client_process
DeleteClientProcess ==
    \E cp \in client_processes :
        /\ client_processes' = delete_client_process(client_processes, cp.id)
        /\ deleted_processes' = deleted_processes \cup {cp.id}
        /\ summary' = [kind |-> "not_run"]
        /\ UNCHANGED <<process_seq, threshold, prioritized_processes, pareto_data,
                       pp_result, pp_warning>>
        /\ UNCHANGED <<client_risks, risk_assessments, risk_seq, risk_save_log,
                       clients_table, update_log>>
        /\ UNCHANGED <<relevance_vars, further_vars, cache_vars, seed_vars, session_vars>>

\* one call of add_client_process for the open client
AddClientProcess ==
    \E process_id \in Framework :
        /\ process_seq < MaxJoinRowId
        /\ client_processes' = add_client_process(client_processes, process_seq,
                                                  current_client_id, process_id, 100000)
        /\ process_seq' = process_seq + 1
        /\ summary' = [kind |-> "not_run"]
        /\ UNCHANGED <<threshold, prioritized_processes, pareto_data, pp_result, pp_warning>>
        /\ UNCHANGED <<client_risks, risk_assessments>>
        /\ UNCHANGED <<relevance_vars, further_vars, later_vars, session_vars>>

\* the open client with two processes and two risks, nothing assessed
JoinInit ==
    /\ NoCatalog
    /\ NothingFurther
    /\ client_processes =
          { [id |-> 1, client_id |-> current_client_id, process_id |-> 1,
             criticality_per_day |-> 100000],
            [id |-> 2, client_id |-> current_client_id, process_id |-> 2,
             criticality_per_day |-> 100000] }
    /\ process_seq = 2
    /\ client_risks =
          { [id |-> 1, client_id |-> current_client_id, risk_id |-> "PHY-001",
             risk_name |-> "Flood", domain |-> "Physical", probability |-> 4],
            [id |-> 2, client_id |-> current_client_id, risk_id |-> "DIG-001",
             risk_name |-> "Ransomware", domain |-> "Digital", probability |-> 4] }
    /\ risk_assessments = {}
    /\ summary = [kind |-> "not_run"]
    /\ threshold = NoThreshold
    /\ prioritized_processes = <<>>
    /\ pareto_data = <<>>
    /\ pp_result = NotRun
    /\ pp_warning = "none"
    /\ NothingLater

JoinNext ==
    \/ SaveAssessmentOf
    \/ DeleteClientProcess
    \/ AddClientProcess
    \/ GetRiskExposureSummary

JoinSpec == JoinInit /\ [][JoinNext]_vars

\* ------------------------------------------------------------- updates
\* the keyword arguments update_client leaves out of the SET clause
update_client_skipped == { "id", "created_at" }

\* update_client(client_id, **kwargs): the passed fields but id and
\* created_at, then updated_at = datetime.now()
update_client(table, client_id, kwargs, time) ==
    LET fields == set_fields(kwargs, update_client_skipped)
    IN update_where_id(table, client_id,
          [ k \in DOMAIN fields \cup {"updated_at"} |->
               IF k = "updated_at" THEN time ELSE fields[k] ])

\* update_client_process(process_db_id, **kwargs)
update_client_process_with(table, process_db_id, kwargs) ==
    update_where_id(table, process_db_id, set_fields(kwargs, update_skipped))

\* keyword arguments of the calls: the fields the pages pass, the keys the
\* functions drop, and other spellings of a column
ClientKwargs ==
    { [name |-> "Acme Ltd"],
      [id |-> 3, created_at |-> 2, name |-> "Acme Ltd"],
      [ID |-> 3],
      [Created_At |-> 2] }
ProcessKwargs ==
    { [criticality_per_day |-> 5],
      [id |-> 3, client_id |-> 2, created_at |-> 2, criticality_per_day |-> 5],
      [client_id |-> 2],
      [rowid |-> 3] }
RiskKwargs ==
    { [client_id |-> 1, is_prioritized |-> 1],
      [id |-> 3, created_at |-> 2, probability |-> 6],
      [Client_ID |-> 2] }
UpdatedIds == 1 .. 3

\* one call of update_client
UpdateClient ==
    \E id \in UpdatedIds, kwargs \in ClientKwargs :
        /\ clients_table' = update_client(clients_table, id, kwargs, now)
        /\ clients' = { r.id : r \in clients_table' }
        /\ update_log' = [kind |-> "update_client", id |-> id, kwargs |-> kwargs]
        /\ UNCHANGED <<risk_seq, risk_save_log, deleted_processes>>
        /\ UNCHANGED <<client_risks, risk_assessments, summary, last_saved>>
        /\ UNCHANGED <<pareto_vars, relevance_vars, engine_vars, probability_vars, risk_vars,
                       cache_vars, seed_vars, session_vars>>

\* one call of update_client_process
UpdateClientProcess ==
    \E id \in UpdatedIds, kwargs \in ProcessKwargs :
        /\ client_processes' = update_client_process_with(client_processes, id, kwargs)
        /\ update_log' = [kind |-> "update_client_process", id |-> id, kwargs |-> kwargs]
        /\ UNCHANGED <<process_seq, threshold, prioritized_processes, pareto_data,
                       pp_result, pp_warning>>
        /\ UNCHANGED <<risk_seq, risk_save_log, deleted_processes, clients_table>>
        /\ UNCHANGED <<relevance_vars, exposure_vars, further_vars, cache_vars, seed_vars,
                       session_vars>>

\* one call of update_client_risk
UpdateClientRisk ==
    \E id \in UpdatedIds, kwargs \in RiskKwargs :
        /\ client_risks' = update_client_risk(client_risks, id, kwargs)
        /\ update_log' = [kind |-> "update_client_risk", id |-> id, kwargs |-> kwargs]
        /\ UNCHANGED <<risk_seq, risk_save_log, deleted_processes, clients_table>>
        /\ UNCHANGED <<risk_assessments, summary>>
        /\ UNCHANGED <<pareto_vars, relevance_vars, further_vars, cache_vars, seed_vars,
                       session_vars>>

\* the rows a table starts with, all created at hour 0
ClientRowsAt(ids) ==
    { [id |-> c, name |-> "Acme", created_at |-> 0, updated_at |-> 0] : c \in ids }
ProcessRowsAt(ids) ==
    { [id |-> c, client_id |-> c, process_id |-> 1, criticality_per_day |-> 100000,
       created_at |-> 0] : c \in ids }
RiskRowsAt(ids) ==
    { [id |-> c, client_id |-> c, risk_id |-> "PHY-001", risk_name |-> "Flood",
       domain |-> "Physical", probability |-> 4, is_prioritized |-> 0,
       created_at |-> 0] : c \in ids }

\* hour 1; one table holds two rows and the others none (rows of a deleted
\* client stay, no foreign key being enforced), or every table holds one row
UpdateInit ==
    /\ NoCatalog
    /\ NoPrioritization
    /\ last_saved = NeverSaved
    /\ \E held \in { <<1 .. 2, {}, {}>>, <<{}, 1 .. 2, {}>>, <<{}, {}, 1 .. 2>>, <<{1}, {1}, {1}>> } :
          /\ clients_table = ClientRowsAt(held[1])
          /\ clients = held[1]
          /\ client_processes = ProcessRowsAt(held[2])
          /\ client_risks = RiskRowsAt(held[3])
    /\ process_seq = 2
    /\ risk_seq = 2
    /\ risk_assessments = {}
    /\ summary = [kind |-> "not_run"]
    /\ NoResult
    /\ NoCalculator
    /\ NoRiskPrioritization
    /\ external_data_cache = {}
    /\ now = 1
    /\ cache_got = [kind |-> "none"]
    /\ cache_put = NeverSaved
    /\ NoSeeding
    /\ risk_save_log = [kind |-> "none"]
    /\ deleted_processes = {}
    /\ update_log = [kind |-> "none"]
    /\ NoSession

UpdateNext ==
    \/ UpdateClient
    \/ UpdateClientProcess
    \/ UpdateClientRisk

UpdateSpec == UpdateInit /\ [][UpdateNext]_vars

\* ------------------------------------------------------------------ claims
\* what the last run of process_prioritization left behind
RanSelection == pp_result.kind = "list"
ClientRows == { r \in client_processes : r.client_id = current_client_id }
StoredTotal == SumSeq([i \in DOMAIN pareto_data |-> pareto_data[i].criticality])
PositiveTotal == RanSelection /\ StoredTotal > 0
\* criticality of the first n rows of the descending order
PrefixWeight(n) == SumSeq([i \in 1 .. n |-> pareto_data[i].criticality])
\* criticality of the selected processes
SelectedWeight ==
    LET rows == SelectSeq(pareto_data, LAMBDA row : row.process_id \in Range(pp_result.ids))
    IN SumSeq([i \in DOMAIN rows |-> rows[i].criticality])
\* positions (in the descending order) of the rows whose own cumulative
\* percentage is at most the threshold
WithinPositions ==
    { i \in DOMAIN pareto_data :
        RatLeqInt(pareto_data[i].cumulative_percentage, threshold) }
PositionOf(id) == CHOOSE i \in DOMAIN pareto_data : pareto_data[i].process_id = id
IsPrefixSelection ==
    \E n \in 0 .. Len(pareto_data) :
        pp_result.ids = [i \in 1 .. n |-> pareto_data[i].process_id]

\* C1: with total criticality > 0 and a threshold T, the selected processes
\* account for at least T% of the total and are the shortest prefix of the
\* descending order that does.  Stated on stored criticalities >= 0, where
\* the order of the cumulative percentages is not in question.
C1_MinimalTopNMeetsThreshold ==
    (PositiveTotal /\ \A r \in ClientRows : r.criticality_per_day >= 0) =>
        /\ IsPrefixSelection
        /\ SelectedWeight * 100 >= threshold * StoredTotal
        /\ \A n \in 0 .. Len(pp_result.ids) - 1 :
              PrefixWeight(n) * 100 < threshold * StoredTotal

\* C2 (as stated): the selection is exactly the longest prefix of the
\* descending order whose rows all have cumulative percentage <= threshold, so
\* no process is selected after an unselected one.
C2_LongestPrefixWithinThreshold ==
    PositiveTotal =>
        LET fits(n) == \A i \in 1 .. n : i \in WithinPositions
            longest == CHOOSE n \in 0 .. Len(pareto_data) :
                          /\ fits(n)
                          /\ \A m \in 0 .. Len(pareto_data) : fits(m) => m <= n
        IN pp_result.ids = [i \in 1 .. longest |-> pareto_data[i].process_id]

\* C2 (amended): the selection is exactly the processes whose own cumulative
\* percentage is <= threshold, in descending-criticality order, or the
\* top-ranked process alone when no process qualifies.
C2_FilterOrTopItem ==
    PositiveTotal =>
        IF WithinPositions = {}
        THEN pp_result.ids = <<pareto_data[1].process_id>>
        ELSE /\ Len(pp_result.ids) = Cardinality(WithinPositions)
             /\ { PositionOf(pp_result.ids[k]) : k \in DOMAIN pp_result.ids } = WithinPositions
             /\ \A k, l \in DOMAIN pp_result.ids :
                   k < l => PositionOf(pp_result.ids[k]) < PositionOf(pp_result.ids[l])

\* C2 witness: a run where no row is within the threshold and the top process
\* is selected on its own, which no prefix rule explains
C2_Witness ==
    /\ PositiveTotal
    /\ WithinPositions = {}
    /\ Len(pareto_data) >= 2
    /\ pp_result.ids = <<pareto_data[1].process_id>>

\* C3: processes exist, their criticalities sum to 0: the run returns None (no
\* list at all), shows the zero-total warning and builds no Pareto table.
C3_ZeroTotalIsUndefined ==
    ( /\ pp_result.kind # "not_run"
      /\ ClientRows # {}
      /\ \A s \in get_client_processes(client_processes, current_client_id) :
            total_criticality(s) = 0 )
    => /\ pp_result = ReturnedNone
       /\ pp_warning = "zero_total"
       /\ pareto_data = <<>>

\* C3 witness: the run happened on two stored processes that sum to 0
C3_Witness ==
    /\ pp_warning = "zero_total"
    /\ pp_result.kind = "None"
    /\ Cardinality(ClientRows) >= 2

\* C4: with total criticality > 0 the selection is never empty, contains a
\* process of the highest criticality, and weighs at least as much as the
\* largest single process.
C4_TopProcessAlwaysSelected ==
    PositiveTotal =>
        /\ pp_result.ids # <<>>
        /\ \E i \in DOMAIN pareto_data :
              /\ pareto_data[i].process_id \in Range(pp_result.ids)
              /\ \A j \in DOMAIN pareto_data :
                    pareto_data[j].criticality <= pareto_data[i].criticality
        /\ \A j \in DOMAIN pareto_data : SelectedWeight >= pareto_data[j].criticality

\* C5: with total criticality > 0, threshold 100 selects every process of the
\* client.
C5_Threshold100SelectsAll ==
    (PositiveTotal /\ threshold = 100) =>
        Range(pp_result.ids) = { r.id : r \in ClientRows }

\* C6: with total criticality > 0 the cumulative percentages, in descending
\* criticality order, never decrease and never exceed 100.
C6_CumulativeMonotoneBounded ==
    PositiveTotal =>
        /\ \A i \in DOMAIN pareto_data :
              RatLeqInt(pareto_data[i].cumulative_percentage, 100)
        /\ \A i, j \in DOMAIN pareto_data :
              i < j => RatLeq(pareto_data[i].cumulative_percentage,
                              pareto_data[j].cumulative_percentage)

\* the entries of the sectors text that are keywords: trimmed, lower-cased, not blank
Keywords(sectors) ==
    LET pieces == split(lower(sectors))
    IN SelectSeq([i \in DOMAIN pieces |-> strip(pieces[i])], LAMBDA k : k # <<>>)
\* a non-empty text occurs in another, letter case aside
Appears(text, within) == text # <<>> /\ contains(lower(within), lower(text))
Bonus(condition, points) == IF condition THEN points ELSE 0

\* C7: each relevance_score is base_probability x 10, +5 industry in affected
\* industries, +3 'all industries', +2 per sector keyword found, +2 global
\* scope, +3 europe in both location and scope, +3 / +2 for 'shipping' /
\* 'trade' in the name when export > 50, +5 super risk, and nothing else.
C7_ScoreIsSumOfListedTerms ==
    scored_risks.kind = "list" =>
        \A i \in DOMAIN scored_risks.rows :
            LET risk == scored_risks.rows[i].risk
                keywords == Keywords(client_info.sectors)
            IN scored_risks.rows[i].relevance_score =
                  (IF risk.base_probability = Absent THEN 5 ELSE risk.base_probability)
                + Bonus(Appears(client_info.industry, risk.Affected_Industries), 5)
                + Bonus(Appears(all_industries, risk.Affected_Industries), 3)
                + 2 * Cardinality({ k \in DOMAIN keywords :
                                      Appears(keywords[k], risk.Affected_Industries) })
                + Bonus(Appears(global, risk.Geographic_Scope), 2)
                + Bonus(Appears(europe, client_info.location)
                            /\ Appears(europe, risk.Geographic_Scope), 3)
                + Bonus(client_info.export_percentage > 50
                            /\ Appears(shipping, risk.Event_Name), 3)
                + Bonus(client_info.export_percentage > 50
                            /\ Appears(trade, risk.Event_Name), 2)
                + Bonus(risk.Super_Risk = YES, 5)

\* C8: the result holds every catalog risk exactly once, in descending score
\* order, equal scores in catalog order; a second call returns the same list.
C8_StableDescendingPermutation ==
    scored_risks.kind = "list" =>
        LET rows == scored_risks.rows
        IN /\ Len(rows) = Len(risks)
           /\ { rows[i].risk.Event_ID : i \in DOMAIN rows } = DOMAIN risks
           /\ \A i \in DOMAIN rows : rows[i].risk = risks[rows[i].risk.Event_ID]
           /\ \A i, j \in DOMAIN rows :
                 i < j => /\ rows[i].relevance_score >= rows[j].relevance_score
                          /\ rows[i].relevance_score = rows[j].relevance_score
                                => rows[i].risk.Event_ID < rows[j].risk.Event_ID
           /\ previous_scored.kind = "list" => previous_scored = scored_risks

\* C8 witness: a second call on a catalog that the sort reorders and that
\* holds two risks of equal score
C8_Witness ==
    /\ scored_risks.kind = "list"
    /\ previous_scored.kind = "list"
    /\ \E i, j \in DOMAIN scored_risks.rows :
          /\ i < j
          /\ scored_risks.rows[i].relevance_score = scored_risks.rows[j].relevance_score
    /\ \E i \in DOMAIN scored_risks.rows : scored_risks.rows[i].risk.Event_ID # i

\* C9: every exposure of a summary is criticality x vulnerability x
\* (1 - resilience) x downtime x probability of its assessment, process and
\* risk rows; exposure(100000, 0.5, 0.3, 5, 0.4) is 70000; the exposure is 0
\* when criticality, vulnerability, downtime or probability is 0 or resilience is 1.
C9_ExposureFormula ==
    summary.kind = "summary" =>
        \A i \in DOMAIN summary.assessments :
            LET e  == summary.assessments[i]
                ra == CHOOSE a \in risk_assessments :
                         /\ a.process_id = e.row.process_id
                         /\ a.risk_id = e.row.risk_id
                         /\ a.client_id = current_client_id
                cp == CHOOSE r \in client_processes : r.id = e.row.process_id
                cr == CHOOSE r \in client_risks : r.id = e.row.risk_id
            IN /\ e.exposure = cp.criticality_per_day * ra.vulnerability
                                 * (10 - ra.resilience) * ra.expected_downtime
                                 * cr.probability
               /\ ( /\ cp.criticality_per_day = 100000
                    /\ ra.vulnerability = 5
                    /\ ra.resilience = 3
                    /\ ra.expected_downtime = 5
                    /\ cr.probability = 4 ) => e.exposure = 70000 * 1000
               /\ ( \/ cp.criticality_per_day = 0
                    \/ ra.vulnerability = 0
                    \/ ra.expected_downtime = 0
                    \/ cr.probability = 0
                    \/ ra.resilience = 10 ) => e.exposure = 0

\* C9 witness: a summary that holds the pair (100000, 0.5, 0.3, 5, 0.4) and a
\* pair with resilience 1
C9_Witness ==
    /\ summary.kind = "summary"
    /\ \E i \in DOMAIN summary.assessments :
          LET row == summary.assessments[i].row
          IN /\ row.criticality_per_day = 100000
             /\ row.vulnerability = 5
             /\ row.resilience = 3
             /\ row.expected_downtime = 5
             /\ row.probability = 4
    /\ \E i \in DOMAIN summary.assessments :
          /\ summary.assessments[i].row.resilience = 10
          /\ summary.assessments[i].row.criticality_per_day = 100000

\* C10: whatever was stored or supplied, every exposure of a summary, its
\* total and every bucket of it are >= 0.
C10_ExposureNeverNegative ==
    summary.kind = "summary" =>
        /\ \A i \in DOMAIN summary.assessments : summary.assessments[i].exposure >= 0
        /\ summary.total_exposure >= 0
        /\ \A k \in DOMAIN summary.by_domain : summary.by_domain[k] >= 0
        /\ \A k \in DOMAIN summary.by_process : summary.by_process[k] >= 0
        /\ \A k \in DOMAIN summary.by_risk : summary.by_risk[k] >= 0

\* the exposures of the entries of a summary whose row satisfies Keep
ExposuresWhere(entries, Keep(_)) ==
    SumSeq([i \in DOMAIN entries |-> IF Keep(entries[i].row) THEN entries[i].exposure ELSE 0])

RECURSIVE BucketTotal(_)
BucketTotal(bucket) ==
    IF DOMAIN bucket = {} THEN 0
    ELSE LET k == CHOOSE key \in DOMAIN bucket : TRUE
         IN bucket[k] + BucketTotal([j \in DOMAIN bucket \ {k} |-> bucket[j]])

\* the grouping has one bucket per key met, the bucket of a key holds the
\* exposures of the entries with that key, and the buckets add up to total
IsPartition(bucket, entries, total, Key(_)) ==
    /\ DOMAIN bucket = { Key(entries[i].row) : i \in DOMAIN entries }
    /\ \A k \in DOMAIN bucket :
          bucket[k] = ExposuresWhere(entries, LAMBDA row : Key(row) = k)
    /\ BucketTotal(bucket) = total

DomainOf(row) == row.domain
ProcessNameOf(row) == row.process_name
RiskNameOf(row) == row.risk_name

\* C11: the total_exposure of a summary is the sum of the exposures of its
\* assessments, and by_domain, by_process and by_risk each partition it:
\* every assessment adds its exposure to exactly one bucket of each grouping
\* and the buckets of each grouping sum to total_exposure.
C11_BucketsPartitionTotal ==
    summary.kind = "summary" =>
        LET entries == summary.assessments
            total   == summary.total_exposure
        IN /\ total = ExposuresWhere(entries, LAMBDA row : TRUE)
           /\ IsPartition(summary.by_domain, entries, total, DomainOf)
           /\ IsPartition(summary.by_process, entries, total, ProcessNameOf)
           /\ IsPartition(summary.by_risk, entries, total, RiskNameOf)

\* C11 witness: a summary of two assessments with exposures other than 0 that
\* share a domain bucket and fall in different risk buckets
C11_Witness ==
    /\ summary.kind = "summary"
    /\ Len(summary.assessments) = 2
    /\ \A i \in DOMAIN summary.assessments : summary.assessments[i].exposure # 0
    /\ Cardinality(DOMAIN summary.by_domain) = 1
    /\ Cardinality(DOMAIN summary.by_risk) = 2

\* the rows get_assessments(current_client_id) returns, in no order
AssessmentRows == Range(CHOOSE s \in get_assessments(current_client_id) : TRUE)

SameReduction(a, b) ==
    /\ a.kind = b.kind
    /\ a.kind = "summary" =>
          /\ a.total_exposure = b.total_exposure
          /\ a.by_domain = b.by_domain
          /\ a.by_process = b.by_process
          /\ a.by_risk = b.by_risk

AssessmentKeys ==
    { <<cp.client_id, cp.id, cr.id>> : cp \in client_processes, cr \in client_risks }

\* C13: there is at most one assessment row per (client_id, process_id,
\* risk_id); get_assessment for a key returns the vulnerability, resilience,
\* expected_downtime and notes of the last save_assessment for that key,
\* whatever was saved for other keys since, and None for a key never saved.
C13_UpsertByKey ==
    \A key \in AssessmentKeys :
        /\ Cardinality({ a \in risk_assessments :
                            <<a.client_id, a.process_id, a.risk_id>> = key }) <= 1
        /\ \A found \in get_assessment(risk_assessments, key[1], key[2], key[3]) :
              IF key \in DOMAIN last_saved
              THEN /\ found # NoRow
                   /\ found.vulnerability = last_saved[key].vulnerability
                   /\ found.resilience = last_saved[key].resilience
                   /\ found.expected_downtime = last_saved[key].expected_downtime
                   /\ found.notes = last_saved[key].notes
              ELSE found = NoRow

\* C13 witness: a key saved more than once, another key saved as well, the
\* two holding different values
C13_Witness ==
    \E k1, k2 \in DOMAIN last_saved :
        /\ k1 # k2
        /\ last_saved[k1].times = 2
        /\ last_saved[k1].vulnerability # last_saved[k2].vulnerability
        /\ last_saved[k1].notes # last_saved[k2].notes

\* C14: once delete_client(c) has run (c is in the clients table no more),
\* no row of client_processes, client_risks or risk_assessments has
\* client_id = c.
C14_DeleteClientRemovesAll ==
    \A c \in ClientIds \ clients :
        /\ \A r \in client_processes : r.client_id # c
        /\ \A r \in client_risks : r.client_id # c
        /\ \A r \in risk_assessments : r.client_id # c

\* the Event_IDs of the catalog handed to the local engine
CatalogIds == { ProbabilityCatalog[i].Event_ID : i \in DOMAIN ProbabilityCatalog }

\* C15: when the backend is online and fetch_probabilities returns a
\* non-empty map, calculated_probabilities is set to exactly that map, its
\* values as they came, and the local engine is not run for that request.
C15_RemoteFirst ==
    pc_run.ran =>
        /\ (pc_run.auto_fetched /\ truthy(pc_run.auto_probs)) =>
               /\ pc_run.backend_available
               /\ pc_run.after_auto = pc_run.auto_probs
               /\ pc_run.clicked = "none" =>
                     /\ calculated_probabilities = pc_run.auto_probs
                     /\ ~ pc_run.local_engine_ran
        /\ (pc_run.button_fetched /\ truthy(pc_run.button_probs)) =>
               /\ pc_run.backend_available
               /\ calculated_probabilities = pc_run.button_probs
               /\ ~ pc_run.local_engine_ran

\* C15 witness: the button's fetch returned the map of raw numbers while the
\* session held results of the local engine, and the session now holds that map
C15_Witness ==
    /\ pc_run.ran
    /\ pc_run.button_fetched
    /\ truthy(pc_run.button_probs)
    /\ "DIG-001" \in DOMAIN pc_run.before.items
    /\ DOMAIN calculated_probabilities.items = {"PHY-001"}
    /\ calculated_probabilities.items["PHY-001"] = [kind |-> "number", value |-> 700]

C17_NoRetryAfterNoData ==
    pc_run.ran =>
        /\ ( \/ pc_run.auto_fetched /\ ~ truthy(pc_run.auto_probs)
             \/ pc_run.button_fetched /\ ~ truthy(pc_run.button_probs) ) =>
               pc_run.local_engine_ran
        /\ (pc_run.previous_remote = "no data" /\ pc_run.clicked # "calculate") =>
               (~ pc_run.auto_fetched /\ ~ pc_run.button_fetched)

\* the entries of the sectors text that occur in the industries a risk affects
MatchingSectors(risk, info) ==
    LET pieces == split(lower(info.sectors))
    IN Cardinality({ i \in DOMAIN pieces :
                        Appears(strip(pieces[i]), risk.Affected_Industries) })

\* C18: every score risk_prioritization shows and filters on lies in
\* [50, 100], a sum of base and bonuses above 100 being cut down to 100,
\* whereas a score of filter_risks_by_relevance has no cap: it grows by 2
\* with every sector keyword that matches, past 100.
C18_CappedInPrioritizationOnly ==
    /\ rp_result.kind = "list" =>
          \A i \in DOMAIN rp_result.scored_risks :
              LET r    == rp_result.scored_risks[i]
                  row  == CHOOSE x \in client_risks : x.id = r.id
                  full == risk_lookup(risks, r.risk_id)
                  sum  == risk_relevance(row, full, client_info)
              IN /\ r.relevance_score >= 50
                 /\ r.relevance_score <= 100
                 /\ r.relevance_score = IF sum > 100 THEN 100 ELSE sum
    /\ scored_risks.kind = "list" =>
          \A i \in DOMAIN scored_risks.rows :
              scored_risks.rows[i].relevance_score >=
                  2 * MatchingSectors(scored_risks.rows[i].risk, client_info)

\* C18 witness: the prioritization view shows a risk whose sum of 110 was
\* cut to 100, and the relevance filter has scored a risk above 100
C18_Witness ==
    /\ rp_result.kind = "list"
    /\ \E i \in DOMAIN rp_result.scored_risks :
          LET r == rp_result.scored_risks[i]
          IN /\ r.relevance_score = 100
             /\ risk_relevance(CHOOSE x \in client_risks : x.id = r.id,
                               risk_lookup(risks, r.risk_id), client_info) = 110
    /\ scored_risks.kind = "list"
    /\ \E i \in DOMAIN scored_risks.rows : scored_risks.rows[i].relevance_score > 100

\* the ids of the risks of a list
IdsOf(list) == { list[i].id : i \in DOMAIN list }

\* C19: the risks selected at a threshold are exactly the scored risks with
\* relevance_score >= threshold, in descending score order, and
\* prioritized_risks holds exactly their ids; a higher threshold selects
\* no risk a lower one leaves out, and threshold 0 selects every risk.
C19_SimpleCutoff ==
    rp_result.kind = "list" =>
        LET scored == rp_result.scored_risks
            at(id) == CHOOSE i \in DOMAIN scored : scored[i].id = id
        IN /\ Range(prioritized_risks) =
                  { scored[i].id : i \in { j \in DOMAIN scored :
                                              scored[j].relevance_score >= risk_threshold } }
           /\ Cardinality(Range(prioritized_risks)) = Len(prioritized_risks)
           /\ \A i, j \in DOMAIN prioritized_risks :
                  i < j => /\ at(prioritized_risks[i]) < at(prioritized_risks[j])
                           /\ scored[at(prioritized_risks[i])].relevance_score
                                 >= scored[at(prioritized_risks[j])].relevance_score
           /\ \A t1, t2 \in RiskThresholds :
                  t1 <= t2 => IdsOf(selected_risks(scored, t2)) \subseteq IdsOf(selected_risks(scored, t1))
           /\ IdsOf(selected_risks(scored, 0)) = IdsOf(scored)
           /\ risk_threshold = 0 => Len(prioritized_risks) = Len(scored)

\* C19 witness: three scored risks, two of them selected, one of these level
\* with the threshold, and the third below the threshold and left out
C19_Witness ==
    /\ rp_result.kind = "list"
    /\ Len(rp_result.scored_risks) = 3
    /\ Len(prioritized_risks) = 2
    /\ \E i \in DOMAIN rp_result.scored_risks :
          rp_result.scored_risks[i].relevance_score = risk_threshold
    /\ rp_result.scored_risks[3].relevance_score < risk_threshold

\* the weights of a table, added up
RECURSIVE WeightTotal(_)
WeightTotal(weights) ==
    IF DOMAIN weights = {} THEN 0
    ELSE LET n == CHOOSE name \in DOMAIN weights : TRUE
         IN weights[n] + WeightTotal([m \in DOMAIN weights \ {n} |-> weights[m]])

\* C20: the four factor weights are 0.30, 0.25, 0.25 and 0.20 and sum to
\* exactly 1.0, and every probability result is the weighted sum of its four
\* factors, with 0 <= probability <= 1 and 0 <= confidence <= 1.
C20_WeightsSumToOne ==
    /\ PROBABILITY_WEIGHTS = [historical_frequency |-> 30, trend_direction |-> 25,
                              current_conditions |-> 25, geographic_exposure |-> 20]
    /\ WeightTotal(PROBABILITY_WEIGHTS) = 100
    /\ Cardinality(DOMAIN FACTOR_WEIGHTS) = 4
    /\ WeightTotal(FACTOR_WEIGHTS) = 100
    /\ probability_result.kind = "result" =>
          LET f == probability_result.factors
          IN /\ \A n \in DOMAIN f : 0 <= f[n] /\ f[n] <= 10
             /\ probability_result.probability =
                    30 * f.historical_frequency + 25 * f.trend_direction
                    + 25 * f.current_conditions + 20 * f.exposure_factor
             /\ 0 <= probability_result.probability
             /\ probability_result.probability <= 1000
             /\ 0 <= probability_result.confidence
             /\ probability_result.confidence <= 100

\* C20 witness: a result whose four factors are all 1 and all live, so that
\* the probability is 1 and the confidence is 1
C20_Witness ==
    /\ probability_result.kind = "result"
    /\ \A n \in FactorNames : probability_result.factors[n] = 10
    /\ probability_result.probability = 1000
    /\ probability_result.confidence = 100

\* ---- C21: put is an upsert keyed by (source_name, data_key): in every state
\* reached by puts, gets, purges and the passing of time a key has at most one
\* row, and that row carries the payload and the expiry of the key's latest put.
CacheRowsOf(k) == { r \in external_data_cache : r.source_name = k[1] /\ r.data_key = k[2] }
C21_PutIsUpsert ==
    \A k \in CacheSources \X CacheKeys :
        /\ Cardinality(CacheRowsOf(k)) <= 1
        /\ \A r \in CacheRowsOf(k) :
              /\ k \in DOMAIN cache_put
              /\ r.data_value = cache_put[k].data_value
              /\ r.expires_at = cache_put[k].expires_at

\* a key was put again with another payload and another expiry, and holds
\* the one row of the second put
C21_Witness ==
    \E k \in DOMAIN cache_put :
        /\ cache_put[k].replaced
        /\ \E r \in CacheRowsOf(k) : r.data_value = cache_put[k].data_value

ClientsNamed(db, name) == { c \in db.clients : db.client_name[c] = name }
\* the processes of a client in a database
ProcessesOf(db, c) == { r \in db.client_processes : r.client_id = c }
\* the clients a seed_demo_clients call added
SeedAdded == seed_log.after.clients \ seed_log.before.clients
\* every client that was there before the call is there after it, with its
\* name and its processes
SeedKeepsExisting ==
    /\ seed_log.before.clients \subseteq seed_log.after.clients
    /\ \A c \in seed_log.before.clients :
          /\ seed_log.after.client_name[c] = seed_log.before.client_name[c]
          /\ ProcessesOf(seed_log.after, c) = ProcessesOf(seed_log.before, c)
    /\ seed_log.before.client_processes \subseteq seed_log.after.client_processes

\* C23 as stated: after a call every demo name exists exactly once, a call that
\* finds every demo name creates nothing, existing clients are unchanged and
\* the call returns.
C23_EachDemoNameExactlyOnce ==
    seed_log.ran =>
        /\ \A n \in DemoNames : Cardinality(ClientsNamed(seed_log.after, n)) = 1
        /\ (\A n \in DemoNames : ClientsNamed(seed_log.before, n) # {}) =>
                seed_log.after = seed_log.before
        /\ SeedKeepsExisting
        /\ seed_log.returned = "True"

\* C23 amended: a call adds a client only for a demo name that no client
\* carries, at most one per name and exactly one when no database call failed;
\* the processes it adds belong to the clients it adds; a call that finds every
\* demo name creates nothing; existing clients are unchanged; the call returns.
C23_SeedAddsMissingNamesOnly ==
    seed_log.ran =>
        /\ \A c \in SeedAdded : seed_log.after.client_name[c] \in DemoNames
        /\ \A n \in DemoNames :
              LET added == SeedAdded \cap ClientsNamed(seed_log.after, n)
              IN IF ClientsNamed(seed_log.before, n) # {}
                 THEN added = {}
                 ELSE /\ Cardinality(added) <= 1
                      /\ ~ seed_log.caught => Cardinality(added) = 1
        /\ \A r \in seed_log.after.client_processes \ seed_log.before.client_processes :
              r.client_id \in SeedAdded
        /\ (\A n \in DemoNames : ClientsNamed(seed_log.before, n) # {}) =>
                seed_log.after = seed_log.before
        /\ SeedKeepsExisting
        /\ seed_log.returned = "True"

\* a call found one demo name carried by a client and skipped it, and added
\* the client of the other name with its processes
C23_Witness ==
    /\ seed_log.ran
    /\ seed_log.fault = NoFault
    /\ \E n \in DemoNames : ClientsNamed(seed_log.before, n) # {}
    /\ \E c \in SeedAdded : ProcessesOf(seed_log.after, c) # {}

\* ---- C24: whatever the pages did, while a client is open
\* prioritized_processes, and the assessment_processes copied from it, hold
\* only ids of processes of that client.
OwnProcessIds == { r.id : r \in { x \in client_processes : x.client_id = session_client_id } }
C24_PrioritizedOfCurrentClient ==
    session_client_id # NoClient =>
        /\ Range(prioritized_processes) \subseteq OwnProcessIds
        /\ assessment_processes.kind = "list" =>
              Range(assessment_processes.ids) \subseteq OwnProcessIds

\* ---- C25: whenever a client is open, selected_processes is the selection
\* that was loaded from that client's saved processes (and edited since), so
\* "Save Process Selection" never applies one client's selection to another.
C25_SelectionOfCurrentClient ==
    session_client_id # NoClient => selection_loaded_for = session_client_id

\* ---- C27: "Save Process Selection" for the open client C with selection S,
\* framework F and saved ids P leaves C with exactly the ids (S \cap P) \cup
\* (S \cap F): the saved rows still selected are unchanged, the new rows have
\* criticality 0, the others are deleted, and no other client's row changes.
RowsOfClient(table, c) == { r \in table : r.client_id = c }
SavedExactlySelection ==
    LET C      == session_client_id
        S      == session_selected_processes
        before == RowsOfClient(client_processes, C)
        after  == RowsOfClient(client_processes', C)
        P      == { r.process_id : r \in before }
    IN /\ { r.process_id : r \in after } = (S \cap P) \cup (S \cap Framework)
       /\ { r \in before : r.process_id \in S } = after \cap before
       /\ \A r \in after \ before : r.criticality_per_day = 0 /\ r.process_id \notin P
       /\ \A r \in before \ after : r.process_id \notin S
       /\ client_processes' \ after = client_processes \ before
C27_SaveStoresSelection ==
    [][client_processes' # client_processes => SavedExactlySelection]_vars

\* a save has inserted a row (criticality 0) and deleted a row that was there
\* from the start
C27_Witness ==
    /\ \E r \in client_processes : r.id > 2 /\ r.criticality_per_day = 0
    /\ \E id \in 1 .. 2 : \A r \in client_processes : r.id # id

\* the Event_IDs of the risk catalog
RiskCatalogIds == { risks[i].Event_ID : i \in DOMAIN risks }

\* no two rows of client_risks share client_id and risk_id
OneRowPerRisk(table) ==
    \A r, s \in table : (r.client_id = s.client_id /\ r.risk_id = s.risk_id) => r = s

\* a press of a Save button of a risk selection page that completed
RiskSaveCompleted ==
    /\ risk_save_log'.kind = "saved"
    /\ risk_save_log' # risk_save_log \/ client_risks' # client_risks

\* every row the table held is still there under its id, client and risk: a
\* risk of the client that is not selected has is_prioritized = 0, a row of
\* another client is as it was
UnselectedKept(before, after, c, selection) ==
    \A r \in before :
        \E s \in after :
            /\ s.id = r.id /\ s.client_id = r.client_id /\ s.risk_id = r.risk_id
            /\ (r.client_id = c /\ r.risk_id \notin selection) => s.is_prioritized = 0
            /\ r.client_id # c => s = r

\* C26: client_risks holds at most one row per (client_id, risk_id) after
\* every step; after a completed save the rows of the client with
\* is_prioritized = 1 are exactly the selected risks the catalog holds, and
\* the risks saved before that are no longer selected are kept with
\* is_prioritized = 0
C26_SaveKeepsOneRowPerRisk ==
    [][ /\ OneRowPerRisk(client_risks) => OneRowPerRisk(client_risks')
        /\ RiskSaveCompleted =>
              /\ prioritized_risk_ids(client_risks', session_client_id') =
                     session_selected_risks' \cap RiskCatalogIds
              /\ UnselectedKept(client_risks, client_risks', session_client_id',
                                session_selected_risks') ]_vars

\* after a save of one risk of the catalog: its row, a risk saved before and
\* turned to is_prioritized = 0, and a selected risk the catalog does not hold
C26_Witness ==
    /\ risk_save_log.kind = "saved"
    /\ risk_save_log.saved_count = 1
    /\ OneRowPerRisk(client_risks)
    /\ \E r \in client_risks : /\ r.client_id = session_client_id
                               /\ r.risk_id \in RiskCatalogIds
                               /\ r.is_prioritized = 0
    /\ \E r \in client_risks : /\ r.client_id = session_client_id
                               /\ r.risk_id \in session_selected_risks
                               /\ r.is_prioritized = 1
    /\ session_selected_risks \ RiskCatalogIds # {}

\* the assessments of the open client whose process row and risk row exist
LiveAssessments ==
    { a \in risk_assessments :
         /\ a.client_id = current_client_id
         /\ \E cp \in client_processes : cp.id = a.process_id
         /\ \E cr \in client_risks : cr.id = a.risk_id }

\* the <<process row id, risk row id>> of the assessments a summary lists
SummaryKeys ==
    IF summary.kind = "summary"
    THEN { <<summary.assessments[i].row.process_id, summary.assessments[i].row.risk_id>> :
              i \in DOMAIN summary.assessments }
    ELSE {}

\* C28: a summary lists exactly the assessments of the client whose process
\* row and risk row both exist, and is None when there is none; an assessment
\* that refers to a process row delete_client_process removed, or to a risk
\* row the table does not hold, is not listed and adds nothing to
\* total_exposure or to a bucket
C28_OnlyAssessmentsOfExistingRows ==
    summary.kind # "not_run" =>
        /\ SummaryKeys = { <<a.process_id, a.risk_id>> : a \in LiveAssessments }
        /\ \A k \in SummaryKeys : k[1] \notin deleted_processes
        /\ summary.kind = "summary" =>
              LET entries == summary.assessments
                  Live(row) == /\ row.process_id \notin deleted_processes
                               /\ \E a \in LiveAssessments : /\ a.process_id = row.process_id
                                                             /\ a.risk_id = row.risk_id
              IN /\ summary.total_exposure = ExposuresWhere(entries, Live)
                 /\ \A k \in DOMAIN summary.by_process :
                       summary.by_process[k] =
                           ExposuresWhere(entries, LAMBDA row : Live(row) /\ row.process_name = k)
                 /\ \A k \in DOMAIN summary.by_risk :
                       summary.by_risk[k] =
                           ExposuresWhere(entries, LAMBDA row : Live(row) /\ row.risk_name = k)
                 /\ \A k \in DOMAIN summary.by_domain :
                       summary.by_domain[k] =
                           ExposuresWhere(entries, LAMBDA row : Live(row) /\ row.domain = k)

\* a summary taken while one assessment refers to a deleted process row,
\* one to a risk row the table does not hold, a process was added after the
\* delete, and one assessment has both its rows
C28_Witness ==
    /\ summary.kind = "summary"
    /\ \E a \in risk_assessments : a.process_id \in deleted_processes
    /\ \E a \in risk_assessments : \A cr \in client_risks : cr.id # a.risk_id
    /\ process_seq > 2
    /\ Len(summary.assessments) = 1
    /\ summary.total_exposure # 0

\* the comma-separated entries of a text, each named by the position of the
\* comma before it (0 for the first); an empty text has no entry
EntryStarts(text) ==
    IF text = <<>> THEN {} ELSE {0} \cup { i \in DOMAIN text : text[i] = "," }
EntryAt(text, start) ==
    LET after == { i \in DOMAIN text : i > start /\ text[i] = "," }
        stop  == IF after = {} THEN Len(text) + 1
                 ELSE CHOOSE i \in after : \A j \in after : i <= j
    IN SubSeq(text, start + 1, stop - 1)

\* the entries whose trimmed, lower-cased form is a substring of the
\* lower-cased affected-industries text
EntriesFound(sectors, affected) ==
    LET within == lower(affected)
        listed == lower(sectors)
    IN { start \in EntryStarts(listed) : contains(within, strip(EntryAt(listed, start))) }

\* the score of a risk but for its sector bonus
ScoreBesideSectors(risk) ==
      (IF risk.base_probability = Absent THEN 5 ELSE risk.base_probability)
    + Bonus(Appears(client_info.industry, risk.Affected_Industries), 5)
    + Bonus(Appears(all_industries, risk.Affected_Industries), 3)
    + Bonus(Appears(global, risk.Geographic_Scope), 2)
    + Bonus(Appears(europe, client_info.location) /\ Appears(europe, risk.Geographic_Scope), 3)
    + Bonus(client_info.export_percentage > 50 /\ Appears(shipping, risk.Event_Name), 3)
    + Bonus(client_info.export_percentage > 50 /\ Appears(trade, risk.Event_Name), 2)
    + Bonus(risk.Super_Risk = YES, 5)

\* C29: the sector bonus of every scored risk is 2 times the number of
\* comma-separated entries of the sectors text whose trimmed, lower-cased
\* form is a substring of the lower-cased affected-industries text; a keyword
\* listed twice counts twice and a blank entry counts for every risk
C29_SectorBonusPerEntry ==
    scored_risks.kind = "list" =>
        \A i \in DOMAIN scored_risks.rows :
            LET risk == scored_risks.rows[i].risk
            IN scored_risks.rows[i].relevance_score - ScoreBesideSectors(risk) =
                  2 * Cardinality(EntriesFound(client_info.sectors, risk.Affected_Industries))

\* a sectors text with a keyword listed twice and two blank entries: one
\* scored risk earns 8 (the keyword twice, the blanks twice) and one, whose
\* affected-industries text is empty, earns 4 for the blanks alone
C29_Witness ==
    /\ scored_risks.kind = "list"
    /\ client_info.sectors = <<"O", "i", "l", ",", "o", "i", "l", ",", ",">>
    /\ \E i \in DOMAIN scored_risks.rows :
          LET risk == scored_risks.rows[i].risk
          IN scored_risks.rows[i].relevance_score - ScoreBesideSectors(risk) = 8
    /\ \E i \in DOMAIN scored_risks.rows :
          LET risk == scored_risks.rows[i].risk
          IN /\ risk.Affected_Industries = <<>>
             /\ scored_risks.rows[i].relevance_score - ScoreBesideSectors(risk) = 4

\* what a step did to a table that update_log' names (or to another one):
\* the row with the addressed id keeps its id and created_at (and client_id,
\* where the table has one to keep), changes in passed fields only, and every
\* other row is as it was
OnlyPassedFieldsChanged(before, after, addressed, id, kwargs, kept) ==
    /\ Cardinality(after) = Cardinality(before)
    /\ \A r \in before :
          IF addressed /\ r.id = id
          THEN \E s \in after :
                  /\ \A k \in kept : s[k] = r[k]
                  /\ \A k \in DOMAIN r : s[k] # r[k] => k \in DOMAIN kwargs
          ELSE r \in after

\* C30: update_client, update_client_process and update_client_risk change
\* only the addressed row and only the passed fields; whatever keyword
\* arguments are given, id and created_at are never changed, client_id is
\* never changed by update_client_process and update_client_risk, and every
\* other row of every table is left unchanged
C30_UpdateChangesOnlyPassedFields ==
    [][ LET call == update_log'
            kwargs == IF call.kind = "none" THEN <<>> ELSE call.kwargs
            id == IF call.kind = "none" THEN 0 ELSE call.id
        IN /\ OnlyPassedFieldsChanged(clients_table, clients_table',
                                      call.kind = "update_client", id, kwargs,
                                      {"id", "created_at"})
           /\ OnlyPassedFieldsChanged(client_processes, client_processes',
                                      call.kind = "update_client_process", id, kwargs,
                                      {"id", "created_at", "client_id"})
           /\ OnlyPassedFieldsChanged(client_risks, client_risks',
                                      call.kind = "update_client_risk", id, kwargs,
                                      {"id", "created_at", "client_id"})
           /\ risk_assessments' = risk_assessments ]_vars
====
